---- MODULE Spec2Model ----
(***************************************************************************)
(* Vedoice-Ai: the audio session and buffering engine.                     *)
(*                                                                         *)
(*   SpecBatch  generateSpeech, the batch synthesis orchestrator, in its   *)
(*              concurrent and in its sequential variant                   *)
(*   SpecLive,  createLiveSessionManager driven by VoiceControlPanel       *)
(*   SpecSession                                                           *)
(*   SpecQueue  the live streaming queue of VoiceControlPanel              *)
(*              (handleLiveAudioChunk / playQueuedAudio)                   *)
(*                                                                         *)
(* JavaScript runs every handler to completion, so one action is one task  *)
(* together with the promise jobs it queues; the suspension points of the  *)
(* code (await) are the places where an action ends.                       *)
(***************************************************************************)
EXTENDS Integers, Sequences, FiniteSets, TLC

VARIABLES
    \* ---- generateSpeech (one call) ----
    variant,            \* "none" | "concurrent" | "sequential": which generateSpeech was called
    batchState,         \* "idle" | "running" | "resolved" | "rejected": the promise of the call
    scriptSegments,     \* the filtered segments, Seq of segment texts
    speakerMode,        \* "single" | "multi"
    multiSpeakerConfigs,\* Seq of [name, voiceId]
    requests,           \* the synthesis requests issued, Seq of [originalIndex, text, voices]
    segmentPromises,    \* per segment: "pending" | "decoding" | "chunk" | "null" | "rejected"
    failedCalls,        \* the segments whose synthesis call or decode threw
    processedCount,     \* the closure variable of that name
    progressCalls,      \* the invocations of onProgress so far, Seq of <<processed, total>>
    completionOrder,    \* the segments in the order their promise was fulfilled
    returned,           \* the list generateSpeech returned, or NoList
    \* ---- createLiveSessionManager: the closure variables of one manager ----
    sessionPromise,     \* 0 (null) or k: the promise connect returned in start call k
    mediaStream,        \* 0 (null) or k: the stream getUserMedia gave start call k
    scriptProcessorNode,\* 0 (null) or k: the node start call k created
    currentInputTranscription,  \* Seq of characters
    currentOutputTranscription, \* Seq of characters
    accumulatedTurns,   \* Seq of [speaker, text]
    \* ---- the browser and the remote service around the manager ----
    startCalls,         \* per start() call: "awaitingMic" | "returned"
    stoppedStreams,     \* the streams whose tracks were stopped
    disconnectedNodes,  \* the nodes disconnect() was called on
    wiredNodes,         \* <<k, n>>: onopen of call k set onaudioprocess on node n and connected source k to it
    conns,              \* per start() call: "none" | "connecting" | "open" | "errored" | "closed" | "rejected"
    closeRequested,     \* the connections stop() asked to close (sessionPromise.then(close))
    startBudget,        \* start() calls the run may still make
    messageBudget,      \* inbound messages the run may still deliver
    \* ---- VoiceControlPanel and App ----
    mounted,            \* the panel is mounted
    isLiveActive,
    isConnecting,
    liveTranscriptionTurns, \* App state set through onTranscriptUpdate
    step,               \* the last task: [handler, conn, stale, msg, calls, threw]
    \* ---- VoiceControlPanel: the live streaming queue ----
    audioQueue,         \* audioQueueRef.current: Seq of buffers [id, duration, behind]
    nextStartTime,      \* nextStartTimeRef.current
    audioSourceNodes,   \* audioSourceNodesRef.current: set of sources [id, start, duration, behind]
    stoppedSources,     \* sources stop() was called on whose ended event is still to come
    currentTime,        \* outputAudioContext.currentTime
    capturedIsLiveActive, \* isLiveActive as closed over by the playQueuedAudio in use
    arrived,            \* the chunks delivered to handleLiveAudioChunk so far
    \* ---- AudioPlayer ----
    audioBuffer,        \* the prop: 0 (null) or the duration of the buffer
    playbackRate,       \* the prop
    isPlaying,
    progress,           \* the state of that name, in units of 1 / duration
    sourceNodeRef,      \* 0 (null) or the id of the source
    animationFrameRef,  \* 0 (null) or 1: the id of a requested frame
    startTimeRef,
    offsetRef,
    framePending,       \* a requested animation frame has neither run nor been cancelled
    frameIsPlaying,     \* isPlaying as closed over by the updateProgress that was requested
    stoppedSourceNodes, \* sources of the player that were stopped, their ended event still to come
    activeSourceNodes,  \* sources of the player that were started and neither stopped nor ended
    playsLeft,          \* sources the run may still create
    playerStep,         \* the last task of the player: [handler, source, ended]
    \* ---- audioUtils: createPcmBlob, decode, decodeAudioData ----
    data,               \* the Float32Array given to createPcmBlob, in units of 1 / FullScale
    pcmBlob,            \* the data field createPcmBlob returned: base64 digits, 64 for '='
    pcmDecoded,         \* the channels of the buffer decodeAudioData returned
    pcmStep,            \* "idle" | "input" | "encoded" | "decoded"
    \* ---- audioUtils: audioBufferToWavBlob ----
    wavBuffer,          \* the AudioBuffer given: [numberOfChannels, sampleRate, length, channels]
    wavBlob,            \* the bytes of the Blob returned
    wavStep,            \* "idle" | "input" | "written"
    \* ---- DownloadOptions: handleDownloadCombined ----
    generatedAudioChunks, \* the audio buffers of the prop, as they are now
    chunksBefore,       \* the same buffers as they were when the handler was called
    combinedBuffer,     \* the buffer handed to audioBufferToWavBlob
    combineStep,        \* "idle" | "input" | "combined" | "threw"
    \* ---- onmessage of the manager as an async function ----
    arrivedMessages,    \* the messages whose message event has been dispatched, in order
    microtaskQueue,     \* the suspended onmessage calls: [message, audio], in the order they resume
    callbackLog,        \* the consumer callbacks invoked so far: [message, callback]
    \* ---- generateSpeech: the split of the script ----
    scriptText,         \* the script given, a sequence of characters
    segments,           \* scriptSegments as computed from it
    segmenterStep,      \* "idle" | "input" | "split"
    \* --- the microphone frames of the live session
    capturedFrames,         \* onaudioprocess events so far; event f captured frame f
    resolvedSessions,   \* the start calls whose connect promise has resolved
    pendingSends,       \* the then-callbacks waiting on connect promises, in registration order
    sentFrames,         \* the sendRealtimeInput calls made on open connections, in order
    droppedFrames       \* frames whose handler threw or whose send found no open connection

batchVars == <<variant, batchState, scriptSegments, speakerMode, multiSpeakerConfigs, requests,
               segmentPromises, failedCalls, processedCount, progressCalls,
               completionOrder, returned>>

managerVars == <<sessionPromise, mediaStream, scriptProcessorNode,
                 currentInputTranscription, currentOutputTranscription, accumulatedTurns>>

liveVars == <<managerVars, startCalls, stoppedStreams, disconnectedNodes, wiredNodes, conns,
              closeRequested, startBudget, messageBudget, mounted, isLiveActive,
              isConnecting, liveTranscriptionTurns, step>>

queueVars == <<audioQueue, nextStartTime, audioSourceNodes, stoppedSources, currentTime,
               capturedIsLiveActive, arrived>>

playerVars == <<audioBuffer, playbackRate, isPlaying, progress, sourceNodeRef,
                animationFrameRef, startTimeRef, offsetRef, framePending, frameIsPlaying,
                stoppedSourceNodes, activeSourceNodes, playsLeft, playerStep>>

pcmVars == <<data, pcmBlob, pcmDecoded, pcmStep>>

wavVars == <<wavBuffer, wavBlob, wavStep>>

combineVars == <<generatedAudioChunks, chunksBefore, combinedBuffer, combineStep>>

utilVars == <<pcmVars, wavVars, combineVars>>

deliveryVars == <<arrivedMessages, microtaskQueue, callbackLog>>

segmenterVars == <<scriptText, segments, segmenterStep>>

micVars == <<capturedFrames, resolvedSessions, pendingSends, sentFrames, droppedFrames>>

moreVars == <<deliveryVars, segmenterVars, micVars>>

vars == <<batchVars, liveVars, queueVars, playerVars, utilVars, moreVars>>

\* ------------------------------------------------------------------ bounds

MaxSegments == 4

\* start() calls on one manager in a run of SpecLive
MaxStarts == 3

\* inbound messages in a run of SpecLive
MaxLiveMessages == 1

\* start() calls on one manager in a run of SpecSession
MaxSessions == 1

\* inbound messages in a run of SpecSession
MaxMessages == 2

\* audio chunks delivered to the live queue in a run of SpecQueue
MaxChunks == 3

\* the longest chunk, in clock ticks
MaxDuration == 2

\* the last clock tick of a run of SpecQueue and of SpecPlayer
MaxTime == 4

\* sources the AudioPlayer creates in a run of SpecPlayer
MaxPlays == 2

\* sample values per 16-bit step: a sample is a multiple of 1 / (32768 * SampleSteps)
SampleSteps == 2

\* the longest Float32Array given to createPcmBlob
MaxPcmLength == 2

\* the longest enumerated AudioBuffer given to audioBufferToWavBlob, in frames
MaxWavLength == 2

\* the most chunks given to handleDownloadCombined
MaxBuffers == 3

\* the longest enumerated chunk given to handleDownloadCombined, in frames
MaxBufferLength == 2

\* message events dispatched in a run of SpecDelivery
MaxDeliveries == 2

\* onaudioprocess events in a run of SpecMic
MaxFrames == 2

\* start() calls on one manager in a run of SpecMic
MaxMicSessions == 2

\* the longest script given to the split, in characters
MaxScriptLength == 4

\* ----------------------------------------------------------------- helpers

\* null where a record is expected
Null == [null |-> TRUE]

\* the call has returned nothing (it is pending, or it threw)
NoList == <<Null>>

Last(s) == s[Len(s)]

\* Math.max
Max(a, b) == IF a >= b THEN a ELSE b

\* String.prototype.trim on a text given as a sequence of characters.
WhiteSpace == {" ", "\n", "\r"}

RECURSIVE TrimLeft(_)
TrimLeft(s) ==
    IF s # <<>> /\ Head(s) \in WhiteSpace THEN TrimLeft(Tail(s)) ELSE s

RECURSIVE TrimRight(_)
TrimRight(s) ==
    IF s # <<>> /\ s[Len(s)] \in WhiteSpace THEN TrimRight(SubSeq(s, 1, Len(s) - 1)) ELSE s

Trim(s) == TrimRight(TrimLeft(s))

\* ========================================================== generateSpeech

\* The speaker configurations a call is made with.
SpeakerSetups ==
    { <<>>,
      << [name |-> <<"A">>, voiceId |-> <<"v">>] >>,
      << [name |-> <<" ">>, voiceId |-> <<"v">>] >>,
      << [name |-> <<"A">>, voiceId |-> <<>>], [name |-> <<"B">>, voiceId |-> <<"w">>] >> }

\* The fragments the split leaves after the filter are not blank but keep
\* their blanks: a sentence with a leading blank, then the delimiter that
\* followed it (the split pattern captures its delimiters), and so on.
SegmentText(i) == IF i % 2 = 1 THEN <<" ", "a">> ELSE <<".", " ">>

\* The scripts a call is made with, after the split and the filter of blank
\* fragments: n non-blank segments.
Scripts == { [i \in 1..n |-> SegmentText(i)] : n \in 0..MaxSegments }

totalChunks == Len(scriptSegments)

validSpeakerConfigs(configs) ==
    SelectSeq(configs, LAMBDA s : Trim(s.name) # <<>> /\ Trim(s.voiceId) # <<>>)

\* A validation that looks at the number of speakers only.
ValidationFailsWhenEmpty(mode, configs) ==
    mode = "multi" /\ Len(configs) = 0

\* The multi-speaker validation throws.
ValidationFails(mode, configs) ==
    mode = "multi" /\ Len(validSpeakerConfigs(configs)) = 0

\* config.speechConfig of one request.
speechConfig(mode, configs) ==
    IF mode = "single" THEN [kind |-> "single", speakers |-> <<>>]
    ELSE IF mode = "multi" /\ Len(configs) > 0
         THEN [kind |-> "multi", speakers |-> configs]
         ELSE [kind |-> "fallback", speakers |-> <<>>]

\* results with text: segment in place of text: segment.trim().
resultsUntrimmed(ps) ==
    [i \in 1..Len(ps) |->
        [originalIndex |-> i,
         chunk |-> IF ps[i] = "chunk"
                   THEN [text |-> scriptSegments[i], audioBuffer |-> i] ELSE Null]]

\* The array Promise.all(segmentPromises) resolves with: one entry per segment,
\* in the order of segmentPromises, whatever the order of completion. The
\* buffer decoded for segment i is the buffer i.
results(ps) ==
    [i \in 1..Len(ps) |->
        [originalIndex |-> i,
         chunk |-> IF ps[i] = "chunk"
                   THEN [text |-> Trim(scriptSegments[i]), audioBuffer |-> i] ELSE Null]]

RECURSIVE InsertByIndex(_, _)
InsertByIndex(r, sorted) ==
    IF sorted = <<>> THEN <<r>>
    ELSE IF r.originalIndex < Head(sorted).originalIndex THEN <<r>> \o sorted
    ELSE <<Head(sorted)>> \o InsertByIndex(r, Tail(sorted))

\* Array.prototype.sort((a, b) => a.originalIndex - b.originalIndex).
RECURSIVE SortByIndex(_)
SortByIndex(rs) ==
    IF rs = <<>> THEN <<>>
    ELSE InsertByIndex(rs[Len(rs)], SortByIndex(SubSeq(rs, 1, Len(rs) - 1)))

Reverse(s) == [k \in 1..Len(s) |-> s[Len(s) + 1 - k]]

\* The comparator written the wrong way round: (a, b) => b.originalIndex - a.originalIndex.
orderedChunksDescending(rs) ==
    LET kept == Reverse(SortByIndex(SelectSeq(rs, LAMBDA res : res.chunk # Null)))
    IN  [k \in 1..Len(kept) |-> kept[k].chunk]

\* results.filter(...).sort(...).map(res => res.chunk)
orderedChunks(rs) ==
    LET kept == SortByIndex(SelectSeq(rs, LAMBDA res : res.chunk # Null))
    IN  [k \in 1..Len(kept) |-> kept[k].chunk]

Settled(ps, i) == i <= Len(ps) /\ ps[i] \in {"chunk", "null", "rejected"}

AllFulfilled(ps) == \A i \in 1..Len(ps) : ps[i] \in {"chunk", "null"}

\* await Promise.all(segmentPromises), then the return: the state of the call's
\* promise once the segment promises are ps. Promise.all rejects with the first
\* rejection and resolves when every promise is fulfilled.
AwaitAll(ps) ==
    /\ batchState' =
         IF batchState # "running" THEN batchState
         ELSE IF \E i \in 1..Len(ps) : ps[i] = "rejected" THEN "rejected"
         ELSE IF AllFulfilled(ps) THEN "resolved"
         ELSE "running"
    /\ returned' =
         IF batchState = "running" /\ AllFulfilled(ps)
         THEN orderedChunks(results(ps)) ELSE returned

\* onProgress(processedCount, totalChunks) after processedCount++.
ReportProgress ==
    /\ processedCount' = processedCount + 1
    /\ progressCalls' = Append(progressCalls, <<processedCount + 1, totalChunks>>)

\* getGenAI() throws: no API key. Nothing else of the call runs.
GenerateSpeechNoKey ==
    /\ batchState = "idle"
    /\ batchState' = "rejected"
    /\ UNCHANGED <<variant, scriptSegments, speakerMode, multiSpeakerConfigs, requests,
                   segmentPromises, failedCalls, processedCount, progressCalls,
                   completionOrder, returned>>

\* The call up to its first suspension: the split, onProgress(0, total), the
\* validation, and the map callback run for every segment up to its await,
\* which issues every request.
GenerateSpeech ==
    /\ batchState = "idle"
    /\ \E script \in Scripts, mode \in {"single", "multi"}, configs \in SpeakerSetups :
        /\ variant' = "concurrent"
        /\ scriptSegments' = script
        /\ speakerMode' = mode
        /\ multiSpeakerConfigs' = configs
        /\ progressCalls' = << <<0, Len(script)>> >>
        /\ processedCount' = 0
        /\ IF ValidationFails(mode, configs)
           THEN /\ batchState' = "rejected"
                /\ requests' = <<>>
                /\ segmentPromises' = <<>>
                /\ returned' = NoList
           ELSE /\ requests' = [i \in 1..Len(script) |->
                                  [originalIndex |-> i, text |-> Trim(script[i]),
                                   speechConfig |-> speechConfig(mode, configs)]]
                /\ segmentPromises' = [i \in 1..Len(script) |-> "pending"]
                /\ batchState' = IF Len(script) = 0 THEN "resolved" ELSE "running"
                /\ returned' = IF Len(script) = 0 THEN <<>> ELSE NoList
    /\ UNCHANGED <<failedCalls, completionOrder>>

\* generateContent of segment i answers with an inline audio payload: the
\* callback goes on to await decodeAudioData.
SegmentAudio(i) ==
    /\ variant = "concurrent"
    /\ i \in 1..Len(segmentPromises)
    /\ segmentPromises[i] = "pending"
    /\ segmentPromises' = [segmentPromises EXCEPT ![i] = "decoding"]
    /\ UNCHANGED <<variant, batchState, scriptSegments, speakerMode, multiSpeakerConfigs,
                   requests, failedCalls, processedCount, progressCalls,
                   completionOrder, returned>>

\* decodeAudioData of segment i returns its buffer: the chunk is built.
SegmentDecoded(i) ==
    /\ variant = "concurrent"
    /\ i \in 1..Len(segmentPromises)
    /\ segmentPromises[i] = "decoding"
    /\ segmentPromises' = [segmentPromises EXCEPT ![i] = "chunk"]
    /\ ReportProgress
    /\ completionOrder' = Append(completionOrder, i)
    /\ AwaitAll(segmentPromises')
    /\ UNCHANGED <<variant, scriptSegments, speakerMode, multiSpeakerConfigs, requests, failedCalls>>

\* The else branch without its count and report.
SegmentEmptySilent(i) ==
    /\ variant = "concurrent"
    /\ i \in 1..Len(segmentPromises)
    /\ segmentPromises[i] = "pending"
    /\ segmentPromises' = [segmentPromises EXCEPT ![i] = "null"]
    /\ completionOrder' = Append(completionOrder, i)
    /\ AwaitAll(segmentPromises')
    /\ UNCHANGED <<variant, scriptSegments, speakerMode, multiSpeakerConfigs, requests, failedCalls,
                   processedCount, progressCalls>>

\* generateContent of segment i answers without an audio payload.
SegmentEmpty(i) ==
    /\ variant = "concurrent"
    /\ i \in 1..Len(segmentPromises)
    /\ segmentPromises[i] = "pending"
    /\ segmentPromises' = [segmentPromises EXCEPT ![i] = "null"]
    /\ ReportProgress
    /\ completionOrder' = Append(completionOrder, i)
    /\ AwaitAll(segmentPromises')
    /\ UNCHANGED <<variant, scriptSegments, speakerMode, multiSpeakerConfigs, requests, failedCalls>>

\* A catch block that logs and returns { originalIndex, chunk: null } instead
\* of throwing again.
SegmentFailsSwallowed(i) ==
    /\ variant = "concurrent"
    /\ i \in 1..Len(segmentPromises)
    /\ segmentPromises[i] \in {"pending", "decoding"}
    /\ segmentPromises' = [segmentPromises EXCEPT ![i] = "null"]
    /\ failedCalls' = failedCalls \cup {i}
    /\ ReportProgress
    /\ completionOrder' = Append(completionOrder, i)
    /\ AwaitAll(segmentPromises')
    /\ UNCHANGED <<variant, scriptSegments, speakerMode, multiSpeakerConfigs, requests>>

\* The catch block: generateContent of segment i fails, or decode /
\* decodeAudioData throws on its payload.
SegmentFails(i) ==
    /\ variant = "concurrent"
    /\ i \in 1..Len(segmentPromises)
    /\ segmentPromises[i] \in {"pending", "decoding"}
    /\ segmentPromises' = [segmentPromises EXCEPT ![i] = "rejected"]
    /\ failedCalls' = failedCalls \cup {i}
    /\ ReportProgress
    /\ AwaitAll(segmentPromises')
    /\ UNCHANGED <<variant, scriptSegments, speakerMode, multiSpeakerConfigs, requests, completionOrder>>

\* ---- the sequential generateSpeech of services/geminiService.ts ----

\* chunks, the array the loop pushes to: the segments that gave audio, in the
\* order of the loop.
chunks(ps) ==
    LET pushed == SelectSeq([i \in 1..Len(ps) |-> i], LAMBDA i : ps[i] = "chunk")
    IN  [k \in 1..Len(pushed) |-> [text |-> Trim(scriptSegments[pushed[k]]), audioBuffer |-> pushed[k]]]

\* The segment the loop is at: the first one that has not been dealt with.
LoopAt(ps, i) ==
    /\ i \in 1..Len(ps)
    /\ ps[i] \in {"pending", "decoding"}
    /\ \A j \in 1..(i - 1) : ps[j] \in {"chunk", "null"}

\* The loop goes on after segment i: the request of the next segment is
\* issued, or, after the last one, chunks is returned.
LoopContinues(ps, i) ==
    /\ requests' =
         IF i < Len(ps)
         THEN Append(requests, [originalIndex |-> i + 1,
                                text |-> Trim(scriptSegments[i + 1]),
                                speechConfig |-> speechConfig(speakerMode, multiSpeakerConfigs)])
         ELSE requests
    /\ batchState' = IF i < Len(ps) THEN "running" ELSE "resolved"
    /\ returned' = IF i < Len(ps) THEN returned ELSE chunks(ps)

\* The call up to its first await: the split, onProgress(0, total), the
\* validation and the request of the first segment.
GenerateSpeechSequential ==
    /\ batchState = "idle"
    /\ \E script \in Scripts, mode \in {"single", "multi"}, configs \in SpeakerSetups :
        /\ variant' = "sequential"
        /\ scriptSegments' = script
        /\ speakerMode' = mode
        /\ multiSpeakerConfigs' = configs
        /\ progressCalls' = << <<0, Len(script)>> >>
        /\ IF ValidationFails(mode, configs)
           THEN /\ batchState' = "rejected"
                /\ requests' = <<>>
                /\ segmentPromises' = <<>>
                /\ returned' = NoList
           ELSE /\ requests' = IF Len(script) = 0 THEN <<>>
                               ELSE << [originalIndex |-> 1, text |-> Trim(script[1]),
                                        speechConfig |-> speechConfig(mode, configs)] >>
                /\ segmentPromises' = [i \in 1..Len(script) |-> "pending"]
                /\ batchState' = IF Len(script) = 0 THEN "resolved" ELSE "running"
                /\ returned' = IF Len(script) = 0 THEN <<>> ELSE NoList
    /\ UNCHANGED <<failedCalls, processedCount, completionOrder>>

\* generateContent of the current segment answers with an audio payload.
SequentialAudio(i) ==
    /\ variant = "sequential" /\ batchState = "running"
    /\ LoopAt(segmentPromises, i)
    /\ segmentPromises[i] = "pending"
    /\ segmentPromises' = [segmentPromises EXCEPT ![i] = "decoding"]
    /\ UNCHANGED <<variant, batchState, scriptSegments, speakerMode, multiSpeakerConfigs,
                   requests, failedCalls, processedCount, progressCalls,
                   completionOrder, returned>>

\* decodeAudioData returns: the chunk is pushed and onProgress(chunks.length,
\* totalChunks) called.
SequentialDecoded(i) ==
    /\ variant = "sequential" /\ batchState = "running"
    /\ LoopAt(segmentPromises, i)
    /\ segmentPromises[i] = "decoding"
    /\ segmentPromises' = [segmentPromises EXCEPT ![i] = "chunk"]
    /\ progressCalls' = Append(progressCalls, <<Len(chunks(segmentPromises')), totalChunks>>)
    /\ completionOrder' = Append(completionOrder, i)
    /\ LoopContinues(segmentPromises', i)
    /\ UNCHANGED <<variant, scriptSegments, speakerMode, multiSpeakerConfigs, failedCalls,
                   processedCount>>

\* generateContent of the current segment answers without an audio payload:
\* nothing is pushed and nothing reported.
SequentialEmpty(i) ==
    /\ variant = "sequential" /\ batchState = "running"
    /\ LoopAt(segmentPromises, i)
    /\ segmentPromises[i] = "pending"
    /\ segmentPromises' = [segmentPromises EXCEPT ![i] = "null"]
    /\ completionOrder' = Append(completionOrder, i)
    /\ LoopContinues(segmentPromises', i)
    /\ UNCHANGED <<variant, scriptSegments, speakerMode, multiSpeakerConfigs, failedCalls,
                   processedCount, progressCalls>>

\* The catch block of the loop: the error is logged and thrown again, which
\* ends the loop and rejects the call.
SequentialFails(i) ==
    /\ variant = "sequential" /\ batchState = "running"
    /\ LoopAt(segmentPromises, i)
    /\ segmentPromises' = [segmentPromises EXCEPT ![i] = "rejected"]
    /\ failedCalls' = failedCalls \cup {i}
    /\ batchState' = "rejected"
    /\ UNCHANGED <<variant, scriptSegments, speakerMode, multiSpeakerConfigs, requests,
                   processedCount, progressCalls, completionOrder, returned>>

InitBatch ==
    /\ variant = "none"
    /\ batchState = "idle"
    /\ scriptSegments = <<>>
    /\ speakerMode = "single"
    /\ multiSpeakerConfigs = <<>>
    /\ requests = <<>>
    /\ segmentPromises = <<>>
    /\ failedCalls = {}
    /\ processedCount = 0
    /\ progressCalls = <<>>
    /\ completionOrder = <<>>
    /\ returned = NoList

\* ------------------------------------------------- claims on generateSpeech

SettledSegments == {i \in 1..totalChunks : Settled(segmentPromises, i)}

\* C1: whatever the order in which the synthesis calls complete, the list
\* generateSpeech returns is in original segment order: a chunk that precedes
\* another in the list comes from a segment with a smaller index.
C1_ReturnedInSegmentOrder ==
    batchState = "resolved" =>
        \A a, b \in 1..Len(returned) :
            a < b => returned[a].audioBuffer < returned[b].audioBuffer

\* Two chunks were returned whose segments completed in the opposite order.
C1_Witness ==
    /\ batchState = "resolved"
    /\ \E p, q \in 1..Len(completionOrder) :
        /\ p < q
        /\ completionOrder[p] > completionOrder[q]
        /\ segmentPromises[completionOrder[p]] = "chunk"
        /\ segmentPromises[completionOrder[q]] = "chunk"

\* C2: once the synthesis call of any segment has failed the call is rejected
\* and has returned no list; a list is returned only by a resolved call, and
\* then every segment was fulfilled and the list holds every segment that
\* gave audio.
C2_FailsAsAUnit ==
    /\ failedCalls # {} => batchState = "rejected" /\ returned = NoList
    /\ returned # NoList <=> batchState = "resolved"
    /\ batchState = "resolved" =>
        /\ AllFulfilled(segmentPromises)
        /\ {returned[k].audioBuffer : k \in 1..Len(returned)} =
             {i \in 1..totalChunks : segmentPromises[i] = "chunk"}

\* One segment failed after another had already produced its chunk.
C2_Witness ==
    /\ batchState = "rejected"
    /\ failedCalls # {}
    /\ \E i \in 1..totalChunks :
        segmentPromises[i] = "chunk" /\ completionOrder # <<>> /\ completionOrder[1] = i

\* C3: in the concurrent generateSpeech, onProgress is invoked with
\* (processedCount, total) once at the start (with 0) and once after each
\* segment resolves, whether with a chunk, without audio or with an error;
\* the reported processedCount never decreases, and the last reported value
\* equals total exactly when every segment has resolved.
C3_ProgressMonotoneAndComplete ==
    /\ \A k \in 1..Len(progressCalls) : progressCalls[k][2] = totalChunks
    /\ \A k \in 1..(Len(progressCalls) - 1) :
        progressCalls[k][1] <= progressCalls[k + 1][1]
    /\ (variant = "concurrent" /\ progressCalls # <<>>) =>
        /\ Len(progressCalls) = 1 + Cardinality(SettledSegments)
        /\ Last(progressCalls)[1] = totalChunks <=> SettledSegments = 1..totalChunks

\* A batch of three or more segments has completely resolved, one segment
\* with a chunk, one without audio and one with an error.
C3_Witness ==
    /\ variant = "concurrent"
    /\ totalChunks >= 3
    /\ SettledSegments = 1..totalChunks
    /\ Last(progressCalls)[1] = totalChunks
    /\ \E i, j, k \in 1..totalChunks :
        /\ segmentPromises[i] = "chunk"
        /\ segmentPromises[j] = "null"
        /\ segmentPromises[k] = "rejected"

\* The segments whose synthesis call returned audio that was decoded.
AudioSegments == {i \in 1..Len(segmentPromises) : segmentPromises[i] = "chunk"}

\* C13: a segment whose call succeeds without an audio payload is skipped and
\* does not fail the batch: once every segment has answered, with or without
\* audio, the call is resolved, and the returned list holds exactly one chunk
\* for each segment that gave audio, with that segment's trimmed text, and
\* nothing else.
C13_NoAudioIsSkipped ==
    /\ (variant # "none" /\ ~ValidationFails(speakerMode, multiSpeakerConfigs)
          /\ AllFulfilled(segmentPromises))
        => batchState = "resolved"
    /\ batchState = "resolved" =>
        /\ Len(returned) = Cardinality(AudioSegments)
        /\ \A k \in 1..Len(returned) : returned[k].audioBuffer \in AudioSegments
        /\ \A i \in AudioSegments :
            \E k \in 1..Len(returned) :
                /\ returned[k] = [text |-> Trim(scriptSegments[i]), audioBuffer |-> i]
                /\ \A j \in 1..Len(returned) : returned[j].audioBuffer = i => j = k

\* A concurrent batch resolved in which one segment gave no audio and
\* another gave audio for a text that had blanks to trim.
C13_Witness ==
    /\ variant = "concurrent"
    /\ batchState = "resolved"
    /\ \E i, j \in 1..totalChunks :
        /\ segmentPromises[i] = "null"
        /\ segmentPromises[j] = "chunk"
        /\ Trim(scriptSegments[j]) # scriptSegments[j]
        /\ \E k \in 1..Len(returned) : returned[k].audioBuffer = j
    /\ Len(returned) < totalChunks

\* C14: in multi-speaker mode, when no configured speaker has both a name
\* and a voice id that are non-empty after trimming, the call is rejected at
\* once: no request is issued for any segment, then or later, and nothing is
\* returned.
C14_NoSpeakerNoRequest ==
    (/\ variant # "none"
     /\ speakerMode = "multi"
     /\ \A k \in 1..Len(multiSpeakerConfigs) :
            \/ Trim(multiSpeakerConfigs[k].name) = <<>>
            \/ Trim(multiSpeakerConfigs[k].voiceId) = <<>>)
    => /\ batchState = "rejected"
       /\ requests = <<>>
       /\ returned = NoList

\* A multi-speaker call for a script with segments was made with one
\* speaker whose name is blank, and was rejected.
C14_Witness ==
    /\ variant # "none"
    /\ speakerMode = "multi"
    /\ multiSpeakerConfigs = << [name |-> <<" ">>, voiceId |-> <<"v">>] >>
    /\ totalChunks > 0
    /\ batchState = "rejected"
    /\ requests = <<>>

\* C20: when a concurrent generateSpeech of N >= 1 segments is over (the
\* validation passed and every segment has settled), onProgress has been
\* invoked exactly N times, its first argument never decreased, and it was N
\* on the last invocation.
C20_ProgressInvokedOncePerSegment ==
    (/\ variant = "concurrent"
     /\ totalChunks >= 1
     /\ ~ValidationFails(speakerMode, multiSpeakerConfigs)
     /\ batchState \in {"resolved", "rejected"}
     /\ SettledSegments = 1..totalChunks) =>
        /\ Len(progressCalls) = totalChunks
        /\ \A k \in 1..(Len(progressCalls) - 1) :
              progressCalls[k][1] <= progressCalls[k + 1][1]
        /\ Last(progressCalls)[1] = totalChunks

\* The reports the concurrent generateSpeech has made for n segments once
\* every segment has settled: (0, n) at the start, then (k, n) for the k-th
\* segment to settle, whatever its outcome.
ConcurrentReports(n) == [k \in 1..(n + 1) |-> <<k - 1, n>>]

\* The call is over: its promise has settled and, in the concurrent variant,
\* so has every segment.
RunOver ==
    /\ variant # "none"
    /\ batchState \in {"resolved", "rejected"}
    /\ variant = "concurrent" => SettledSegments = 1..totalChunks

\* C21: the two variants of generateSpeech are equivalent: for the same
\* outcomes of the segments a finished run of either has made the progress
\* reports of the concurrent variant, and has failed if a segment failed and
\* otherwise returned the chunks of the audio segments in script order.
C21_VariantsEquivalent ==
    (RunOver /\ ~ValidationFails(speakerMode, multiSpeakerConfigs)) =>
        /\ progressCalls = ConcurrentReports(totalChunks)
        /\ IF \E i \in 1..Len(segmentPromises) : segmentPromises[i] = "rejected"
           THEN batchState = "rejected"
           ELSE batchState = "resolved" /\ returned = orderedChunks(results(segmentPromises))

\* C37: every speaker entry in the voice map of a request has a name and a
\* voice id that are not blank.
C37_OnlyValidSpeakersSent ==
    \A i \in 1..Len(requests) :
        \A k \in 1..Len(requests[i].speechConfig.speakers) :
            LET speaker == requests[i].speechConfig.speakers[k]
            IN  Trim(speaker.name) # <<>> /\ Trim(speaker.voiceId) # <<>>

\* the characters of the delimiters of the split
SentenceEnd == {".", "?", "!", "WIDE"}

\* C38: the text of every request holds a character that is not
\* sentence-ending punctuation (nor a blank), so no request is made for a
\* delimiter alone.
C38_NoRequestForDelimiter ==
    \A i \in 1..Len(requests) :
        \E k \in 1..Len(requests[i].text) :
            requests[i].text[k] \notin SentenceEnd \cup WhiteSpace

\* C35: once the promise of generateSpeech has settled, onProgress is not
\* called again.
C35_NoProgressAfterSettled ==
    [][(batchState = "resolved" \/ batchState = "rejected") =>
          progressCalls' = progressCalls]_vars

\* ================================================ createLiveSessionManager

\* LiveServerMessage.serverContent, as far as onmessage reads it. A field that
\* is absent is <<>>; a transcription that is present is <<text>>, its text a
\* sequence of characters.
Message(out, in, tc, audio) ==
    [outputTranscription |-> out, inputTranscription |-> in, turnComplete |-> tc,
     audio |-> audio]

\* The inbound messages of a run: each field alone, and the fields together.
Messages ==
    { Message(<<>>, <<>>, FALSE, "absent"),
      Message(<< <<"x">> >>, <<>>, FALSE, "absent"),
      Message(<<>>, << <<"x">> >>, FALSE, "absent"),
      Message(<< <<>> >>, <<>>, FALSE, "absent"),
      Message(<<>>, <<>>, TRUE, "absent"),
      Message(<<>>, <<>>, FALSE, "pcm"),
      Message(<<>>, <<>>, FALSE, "malformed"),
      Message(<< <<"y">> >>, << <<"y">> >>, TRUE, "absent"),
      Message(<<>>, << <<"y">> >>, TRUE, "pcm"),
      Message(<< <<"y">> >>, <<>>, FALSE, "malformed") }

\* The closure variables of the manager, and what its calls did to the
\* streams, nodes and connections they were made on.
Manager ==
    [mediaStream |-> mediaStream,
     scriptProcessorNode |-> scriptProcessorNode,
     sessionPromise |-> sessionPromise,
     currentInputTranscription |-> currentInputTranscription,
     currentOutputTranscription |-> currentOutputTranscription,
     accumulatedTurns |-> accumulatedTurns,
     stoppedStreams |-> stoppedStreams,
     disconnectedNodes |-> disconnectedNodes,
     closeRequested |-> closeRequested]

SetManager(w) ==
    /\ mediaStream' = w.mediaStream
    /\ scriptProcessorNode' = w.scriptProcessorNode
    /\ sessionPromise' = w.sessionPromise
    /\ currentInputTranscription' = w.currentInputTranscription
    /\ currentOutputTranscription' = w.currentOutputTranscription
    /\ accumulatedTurns' = w.accumulatedTurns
    /\ stoppedStreams' = w.stoppedStreams
    /\ disconnectedNodes' = w.disconnectedNodes
    /\ closeRequested' = w.closeRequested

resetTranscription(w) ==
    [w EXCEPT !.currentInputTranscription = <<>>,
              !.currentOutputTranscription = <<>>,
              !.accumulatedTurns = <<>>]

\* stop() without its sessionPromise = null.
stopKeepsSessionPromise(w) ==
    resetTranscription(
        [w EXCEPT
            !.stoppedStreams = IF w.mediaStream # 0 THEN @ \cup {w.mediaStream} ELSE @,
            !.mediaStream = 0,
            !.disconnectedNodes =
                IF w.scriptProcessorNode # 0 THEN @ \cup {w.scriptProcessorNode} ELSE @,
            !.scriptProcessorNode = 0,
            !.closeRequested = IF w.sessionPromise # 0 THEN @ \cup {w.sessionPromise} ELSE @])

\* stop(): each handle, when set, is released and cleared; the close of the
\* connection is asked for in a then-callback and not awaited.
stop(w) ==
    resetTranscription(
        [w EXCEPT
            !.stoppedStreams = IF w.mediaStream # 0 THEN @ \cup {w.mediaStream} ELSE @,
            !.mediaStream = 0,
            !.disconnectedNodes =
                IF w.scriptProcessorNode # 0 THEN @ \cup {w.scriptProcessorNode} ELSE @,
            !.scriptProcessorNode = 0,
            !.closeRequested = IF w.sessionPromise # 0 THEN @ \cup {w.sessionPromise} ELSE @,
            !.sessionPromise = 0])

\* React ignores the state updates of an unmounted component.
SetPanel(active, connecting) ==
    IF mounted
    THEN isLiveActive' = active /\ isConnecting' = connecting
    ELSE UNCHANGED <<isLiveActive, isConnecting>>

\* What the task that just ran was: its handler, the start call whose connection
\* delivered it (0: none), whether stop() had already asked that connection to
\* close, the message handled (<<>>: none), the callbacks and stop() calls made,
\* in order, and whether it ended in a TypeError.
StepWith(handler, k, msg, calls, threw, updates) ==
    step' = [handler |-> handler, conn |-> k, stale |-> k \in closeRequested,
             msg |-> msg, calls |-> calls, threw |-> threw, updates |-> updates]

Step(handler, k, msg, calls, threw) == StepWith(handler, k, msg, calls, threw, <<>>)

UsedStarts == Len(startCalls)

\* The Start button: startLiveSession up to the await inside manager.start(),
\* which runs stop(), resetTranscription() and getGenAI() and then suspends in
\* getUserMedia.
StartLiveSession ==
    /\ mounted /\ ~isLiveActive /\ ~isConnecting
    /\ startBudget > 0
    /\ startBudget' = startBudget - 1
    /\ SetPanel(isLiveActive, TRUE)
    /\ liveTranscriptionTurns' = <<>>
    /\ SetManager(resetTranscription(stop(Manager)))
    /\ startCalls' = Append(startCalls, "awaitingMic")
    /\ conns' = Append(conns, "none")
    /\ Step("startLiveSession", UsedStarts + 1, <<>>, <<"onTranscriptUpdate", "stop">>, FALSE)
    /\ UNCHANGED <<wiredNodes, messageBudget, mounted>>

\* getUserMedia of start call k resolves: the rest of start() runs, and then
\* the rest of startLiveSession.
MicGranted(k) ==
    /\ k \in 1..UsedStarts
    /\ startCalls[k] = "awaitingMic"
    /\ startCalls' = [startCalls EXCEPT ![k] = "returned"]
    /\ SetManager([Manager EXCEPT !.mediaStream = k,
                                  !.scriptProcessorNode = k,
                                  !.sessionPromise = k])
    /\ conns' = [conns EXCEPT ![k] = "connecting"]
    /\ SetPanel(TRUE, FALSE)
    /\ Step("start", k, <<>>, <<>>, FALSE)
    /\ UNCHANGED <<wiredNodes, startBudget, messageBudget, mounted, liveTranscriptionTurns>>

\* handleLiveError without its call of the manager's stop().
handleLiveErrorWithoutStop(w) == w

\* handleLiveError: the panel's onError.
handleLiveError(w) == stop(w)

\* getUserMedia of start call k rejects: the catch of start() calls onError
\* and stop(); start() then returns normally, so startLiveSession goes on
\* to setIsLiveActive(true).
MicDenied(k) ==
    /\ k \in 1..UsedStarts
    /\ startCalls[k] = "awaitingMic"
    /\ startCalls' = [startCalls EXCEPT ![k] = "returned"]
    /\ SetManager(stop(handleLiveError(Manager)))
    /\ SetPanel(TRUE, FALSE)
    /\ Step("start", k, <<>>, <<"onError", "stop", "stop">>, FALSE)
    /\ UNCHANGED <<wiredNodes, conns, startBudget, messageBudget, mounted,
                   liveTranscriptionTurns>>

\* onopen of the connection of start call k. scriptProcessorNode is the
\* manager's variable, source the local of call k.
ConnOpen(k) ==
    /\ k \in 1..UsedStarts
    /\ conns[k] = "connecting"
    /\ conns' = [conns EXCEPT ![k] = "open"]
    /\ IF scriptProcessorNode = 0
       THEN /\ Step("onopen", k, <<>>, <<>>, TRUE)
            /\ UNCHANGED wiredNodes
       ELSE /\ Step("onopen", k, <<>>, <<>>, FALSE)
            /\ wiredNodes' = wiredNodes \cup {<<k, scriptProcessorNode>>}
    /\ UNCHANGED <<managerVars, startCalls, stoppedStreams, disconnectedNodes,
                   closeRequested, startBudget, messageBudget, mounted, isLiveActive,
                   isConnecting, liveTranscriptionTurns>>

\* The promise ai.live.connect returned to start call k rejects (the attempt
\* fails before a socket exists, so no callback of the connection fires).
\* start() did not await the promise and nothing else handles its rejection.
ConnectRejected(k) ==
    /\ k \in 1..UsedStarts
    /\ conns[k] = "connecting"
    /\ conns' = [conns EXCEPT ![k] = "rejected"]
    /\ Step("connectRejected", k, <<>>, <<>>, FALSE)
    /\ UNCHANGED <<managerVars, startCalls, stoppedStreams, disconnectedNodes, wiredNodes,
                   closeRequested, startBudget, messageBudget, mounted, isLiveActive,
                   isConnecting, liveTranscriptionTurns>>

\* The records a turn-complete seals from the accumulators.
sealedTurns(w) ==
    (IF w.currentInputTranscription # <<>>
     THEN << [speaker |-> "user", text |-> w.currentInputTranscription] >> ELSE <<>>)
    \o
    (IF w.currentOutputTranscription # <<>>
     THEN << [speaker |-> "model", text |-> w.currentOutputTranscription] >> ELSE <<>>)

\* The assistant record pushed before the user record.
onTurnCompleteModelFirst(w) ==
    [w EXCEPT
        !.accumulatedTurns =
            @ \o (IF w.currentOutputTranscription # <<>>
                  THEN << [speaker |-> "model", text |-> w.currentOutputTranscription] >>
                  ELSE <<>>)
              \o (IF w.currentInputTranscription # <<>>
                  THEN << [speaker |-> "user", text |-> w.currentInputTranscription] >>
                  ELSE <<>>),
        !.currentInputTranscription = <<>>,
        !.currentOutputTranscription = <<>>]

\* onmessage, the turnComplete block.
onTurnComplete(w) ==
    [w EXCEPT !.accumulatedTurns = @ \o sealedTurns(w),
              !.currentInputTranscription = <<>>,
              !.currentOutputTranscription = <<>>]

\* Transcription blocks that keep only the last delta.
onTranscriptionReplaces(w, msg) ==
    [w EXCEPT
        !.currentOutputTranscription =
            IF msg.outputTranscription # <<>> THEN msg.outputTranscription[1] ELSE @,
        !.currentInputTranscription =
            IF msg.inputTranscription # <<>> THEN msg.inputTranscription[1] ELSE @]

\* onmessage, the two transcription blocks.
onTranscription(w, msg) ==
    [w EXCEPT
        !.currentOutputTranscription =
            IF msg.outputTranscription # <<>> THEN @ \o msg.outputTranscription[1] ELSE @,
        !.currentInputTranscription =
            IF msg.inputTranscription # <<>> THEN @ \o msg.inputTranscription[1] ELSE @]

\* The manager after onmessage(msg).
onmessage(w, msg) ==
    LET w1 == onTranscription(w, msg)
        w2 == IF msg.turnComplete THEN onTurnComplete(w1) ELSE w1
    IN  IF msg.audio = "malformed" THEN handleLiveError(w2) ELSE w2

\* The (input, output) pairs onmessage(msg) passes to onTranscriptionUpdate,
\* in order: the output block runs first, then the input block.
onTranscriptionUpdates(w, msg) ==
    LET w1 == onTranscription(w, [msg EXCEPT !.inputTranscription = <<>>])
        w2 == onTranscription(w, msg)
    IN  (IF msg.outputTranscription # <<>>
         THEN << <<w1.currentInputTranscription, w1.currentOutputTranscription>> >>
         ELSE <<>>)
        \o (IF msg.inputTranscription # <<>>
            THEN << <<w2.currentInputTranscription, w2.currentOutputTranscription>> >>
            ELSE <<>>)

\* The consumer callbacks onmessage(msg) invokes, in order.
onmessageCalls(msg) ==
    (IF msg.outputTranscription # <<>> THEN <<"onTranscriptionUpdate">> ELSE <<>>)
    \o (IF msg.inputTranscription # <<>> THEN <<"onTranscriptionUpdate">> ELSE <<>>)
    \o (IF msg.turnComplete THEN <<"onCompleteTurn">> ELSE <<>>)
    \o (CASE msg.audio = "pcm" -> <<"onAudioChunk">>
          [] msg.audio = "malformed" -> <<"onError", "stop">>
          [] OTHER -> <<>>)

\* An inbound message on the connection of start call k.
ConnMessage(k) ==
    /\ k \in 1..UsedStarts
    /\ conns[k] = "open"
    /\ messageBudget > 0
    /\ messageBudget' = messageBudget - 1
    /\ \E msg \in Messages :
        /\ SetManager(onmessage(Manager, msg))
        /\ liveTranscriptionTurns' =
             IF msg.turnComplete
             THEN onTurnComplete(onTranscription(Manager, msg)).accumulatedTurns
             ELSE liveTranscriptionTurns
        /\ IF msg.audio = "malformed"
           THEN SetPanel(FALSE, FALSE)
           ELSE UNCHANGED <<isLiveActive, isConnecting>>
        /\ StepWith("onmessage", k, <<msg>>, onmessageCalls(msg), FALSE,
                    onTranscriptionUpdates(Manager, msg))
    /\ UNCHANGED <<startCalls, wiredNodes, conns, startBudget, mounted>>

\* onerror: onError(e.error), which is handleLiveError, then stop().
onerror(w) == stop(handleLiveError(w))

\* A connection-level error event on the connection of start call k; the
\* socket delivers nothing after it but its close event.
ConnError(k) ==
    /\ k \in 1..UsedStarts
    /\ conns[k] \in {"connecting", "open"}
    /\ conns' = [conns EXCEPT ![k] = "errored"]
    /\ SetManager(onerror(Manager))
    /\ SetPanel(FALSE, FALSE)
    /\ Step("onerror", k, <<>>, <<"onError", "stop", "stop">>, FALSE)
    /\ UNCHANGED <<startCalls, wiredNodes, startBudget, messageBudget, mounted,
                   liveTranscriptionTurns>>

\* onclose without its stop().
oncloseWithoutStop(w) == w

\* onclose: onClose(), which is handleLiveClose, then stop().
onclose(w) == stop(w)

\* The close event of the connection of start call k.
ConnClose(k) ==
    /\ k \in 1..UsedStarts
    /\ conns[k] \in {"connecting", "open", "errored"}
    /\ conns' = [conns EXCEPT ![k] = "closed"]
    /\ SetManager(onclose(Manager))
    /\ SetPanel(FALSE, FALSE)
    /\ Step("onclose", k, <<>>, <<"onClose", "stop">>, FALSE)
    /\ UNCHANGED <<startCalls, wiredNodes, startBudget, messageBudget, mounted,
                   liveTranscriptionTurns>>

\* The Stop button: stopLiveSession.
StopLiveSession ==
    /\ mounted /\ isLiveActive /\ ~isConnecting
    /\ SetManager(stop(Manager))
    /\ SetPanel(FALSE, isConnecting)
    /\ Step("stopLiveSession", 0, <<>>, <<"stop">>, FALSE)
    /\ UNCHANGED <<startCalls, wiredNodes, conns, startBudget, messageBudget, mounted,
                   liveTranscriptionTurns>>

\* The cleanup of the panel's effect: the panel is unmounted.
Unmount ==
    /\ mounted
    /\ mounted' = FALSE
    /\ SetManager(stop(Manager))
    /\ Step("unmount", 0, <<>>, <<"stop">>, FALSE)
    /\ UNCHANGED <<startCalls, wiredNodes, conns, startBudget, messageBudget, isLiveActive,
                   isConnecting, liveTranscriptionTurns>>

\* The manager as createLiveSessionManager returns it, in a mounted panel.
InitManager ==
    /\ sessionPromise = 0
    /\ mediaStream = 0
    /\ scriptProcessorNode = 0
    /\ currentInputTranscription = <<>>
    /\ currentOutputTranscription = <<>>
    /\ accumulatedTurns = <<>>
    /\ startCalls = <<>>
    /\ stoppedStreams = {}
    /\ disconnectedNodes = {}
    /\ wiredNodes = {}
    /\ conns = <<>>
    /\ closeRequested = {}
    /\ mounted = TRUE
    /\ isLiveActive = FALSE
    /\ isConnecting = FALSE
    /\ liveTranscriptionTurns = <<>>
    /\ step = [handler |-> "mount", conn |-> 0, stale |-> FALSE, msg |-> <<>>,
               calls |-> <<>>, threw |-> FALSE, updates |-> <<>>]

InitLive == InitManager /\ startBudget = MaxStarts /\ messageBudget = MaxLiveMessages

InitSession == InitManager /\ startBudget = MaxSessions /\ messageBudget = MaxMessages

\* ------------------------------------------ claims on the live session manager

\* The streams getUserMedia has handed out whose tracks are still running.
OpenStreams == {k \in 1..UsedStarts : conns[k] # "none" /\ k \notin stoppedStreams}

\* The connections that were opened and that nothing has asked to close.
OpenConnections ==
    {k \in 1..UsedStarts : conns[k] \in {"connecting", "open"} /\ k \notin closeRequested}

\* C4: in every interleaving of start(), stop() and connection events at most
\* one microphone stream and at most one connection are held open, and every
\* stream that is still open is the one the manager holds (none was dropped
\* without being stopped).
C4_OneStreamOneConnection ==
    /\ Cardinality(OpenStreams) <= 1
    /\ Cardinality(OpenConnections) <= 1
    /\ \A k \in OpenStreams : mediaStream = k

\* C5: the handler of a connection-level error or close event first invokes
\* onError / onClose and ends with stop(); when it has run, the stream the
\* manager held has its tracks stopped, the node it held is disconnected, and
\* the manager holds no stream, node or connection.
C5_TerminalEventReleases ==
    [][step'.handler \in {"onerror", "onclose"} =>
        /\ Len(step'.calls) >= 2
        /\ step'.calls[1] = (IF step'.handler = "onerror" THEN "onError" ELSE "onClose")
        /\ step'.calls[Len(step'.calls)] = "stop"
        /\ mediaStream # 0 => mediaStream \in stoppedStreams'
        /\ scriptProcessorNode # 0 => scriptProcessorNode \in disconnectedNodes'
        /\ sessionPromise # 0 => sessionPromise \in closeRequested'
        /\ mediaStream' = 0 /\ scriptProcessorNode' = 0 /\ sessionPromise' = 0]_vars

\* A close event has reached a session nothing had stopped, and released its
\* stream, its node and its connection.
C5_Witness ==
    /\ step.handler = "onclose"
    /\ ~step.stale
    /\ step.conn \in stoppedStreams
    /\ step.conn \in disconnectedNodes
    /\ step.conn \in closeRequested

\* C6: onopen or onmessage of a connection that stop() has already asked to
\* close is a no-op: it changes no variable of the manager, invokes no
\* consumer callback and raises no TypeError.
C6_StaleCallbackIsNoOp ==
    [][(step'.handler \in {"onopen", "onmessage"} /\ step'.stale) =>
        /\ UNCHANGED managerVars
        /\ step'.calls = <<>>
        /\ ~step'.threw]_vars

\* C32: an error or close event of a connection that stop() had already
\* asked to close, arriving while the manager holds the stream, node or
\* connection of a later start(), leaves the manager's variables as they
\* are and stops no stream, disconnects no node and closes no connection.
C32_StaleEventSparesNewSession ==
    [][(/\ step'.handler \in {"onerror", "onclose"}
        /\ step'.stale
        /\ \/ mediaStream > step'.conn
           \/ scriptProcessorNode > step'.conn
           \/ sessionPromise > step'.conn) =>
          UNCHANGED <<managerVars, stoppedStreams, disconnectedNodes, closeRequested>>]_vars

\* C33: when the panel was unmounted (its cleanup calls stop()) while a
\* start() was waiting for the microphone, the manager holds no stream, no
\* node and no connection once that start() has finished.
C33_StopDuringStartHolds ==
    [][(step'.handler = "start" /\ ~mounted) =>
          mediaStream' = 0 /\ scriptProcessorNode' = 0 /\ sessionPromise' = 0]_vars

CleanManager ==
    /\ mediaStream = 0
    /\ scriptProcessorNode = 0
    /\ sessionPromise = 0
    /\ currentInputTranscription = <<>>
    /\ currentOutputTranscription = <<>>
    /\ accumulatedTurns = <<>>

\* C7: a stop() call raises no error and leaves the manager with no stream,
\* node or connection and with empty accumulators and history; on a manager
\* that is already in that state (never started, or just stopped) it changes
\* nothing and releases nothing; and it returns without waiting for the
\* connection to close.
C7_StopIdempotent ==
    [][step'.handler \in {"stopLiveSession", "unmount"} =>
        /\ ~step'.threw
        /\ CleanManager'
        /\ conns' = conns
        /\ CleanManager =>
            UNCHANGED <<managerVars, stoppedStreams, disconnectedNodes, closeRequested>>]_vars

\* stop() has run on a manager that an earlier stop() had already cleared,
\* while the connection that stop() asked to close is still not closed.
C7_Witness ==
    /\ step.handler = "unmount"
    /\ startCalls = <<"returned">>
    /\ ~isLiveActive
    /\ conns[1] \in {"connecting", "open"}
    /\ closeRequested = {1}

\* C8: a turn-complete message appends to the turn history the records built
\* from the accumulators as they are after the message's own deltas: none for
\* an empty side, the user record before the model record; the callback gets
\* the updated history, and both accumulators are empty afterwards.
C8_TurnCompleteSeals ==
    [][(step'.handler = "onmessage" /\ step'.msg[1].turnComplete) =>
        LET m == step'.msg[1]
            input == currentInputTranscription
                       \o (IF m.inputTranscription # <<>> THEN m.inputTranscription[1] ELSE <<>>)
            output == currentOutputTranscription
                       \o (IF m.outputTranscription # <<>> THEN m.outputTranscription[1] ELSE <<>>)
            sealed == (IF input # <<>> THEN << [speaker |-> "user", text |-> input] >> ELSE <<>>)
                       \o (IF output # <<>> THEN << [speaker |-> "model", text |-> output] >>
                           ELSE <<>>)
        IN  /\ Len(sealed) \in 0..2
            /\ liveTranscriptionTurns' = accumulatedTurns \o sealed
            /\ m.audio # "malformed" => accumulatedTurns' = accumulatedTurns \o sealed
            /\ "onCompleteTurn" \in {step'.calls[i] : i \in 1..Len(step'.calls)}
            /\ currentInputTranscription' = <<>>
            /\ currentOutputTranscription' = <<>>]_vars

\* A turn-complete sealed a user record and, after it, a model record whose
\* text had been accumulated over two deltas.
C8_Witness ==
    /\ step.handler = "onmessage"
    /\ step.msg[1].turnComplete
    /\ Len(accumulatedTurns) = 2
    /\ accumulatedTurns[1] = [speaker |-> "user", text |-> <<"y">>]
    /\ accumulatedTurns[2] = [speaker |-> "model", text |-> <<"x", "y">>]
    /\ liveTranscriptionTurns = accumulatedTurns

\* C29: a message that is not a turn-complete, and whose handling does not
\* stop the session, leaves each accumulator as it was with the message's
\* delta of that kind appended; every delta of a message calls
\* onTranscriptionUpdate with the accumulators as they are at that moment
\* (the output delta first); a step that is neither a message nor a stop()
\* leaves the accumulators alone.
C29_AccumulatorsGrowByAppend ==
    [][/\ step'.handler = "onmessage" =>
            LET m == step'.msg[1]
                deltaOut == IF m.outputTranscription # <<>> THEN m.outputTranscription[1]
                            ELSE <<>>
                deltaIn == IF m.inputTranscription # <<>> THEN m.inputTranscription[1]
                           ELSE <<>>
            IN  /\ (~m.turnComplete /\ m.audio # "malformed") =>
                      /\ currentOutputTranscription' = currentOutputTranscription \o deltaOut
                      /\ currentInputTranscription' = currentInputTranscription \o deltaIn
                /\ step'.updates =
                      (IF m.outputTranscription # <<>>
                       THEN << <<currentInputTranscription,
                                 currentOutputTranscription \o deltaOut>> >>
                       ELSE <<>>)
                      \o (IF m.inputTranscription # <<>>
                          THEN << <<currentInputTranscription \o deltaIn,
                                    currentOutputTranscription \o deltaOut>> >>
                          ELSE <<>>)
                /\ Len(SelectSeq(step'.calls, LAMBDA c : c = "onTranscriptionUpdate"))
                      = Len(step'.updates)
       /\ (step'.handler # "onmessage"
             /\ \A i \in 1..Len(step'.calls) : step'.calls[i] # "stop") =>
            /\ currentOutputTranscription' = currentOutputTranscription
            /\ currentInputTranscription' = currentInputTranscription]_vars

\* The output accumulator holds two deltas of one turn, and the second delta
\* was reported with both.
C29_Witness ==
    /\ step.handler = "onmessage"
    /\ ~step.msg[1].turnComplete
    /\ currentOutputTranscription = <<"x", "x">>
    /\ currentInputTranscription = <<>>
    /\ step.updates = << << <<>>, <<"x", "x">> >> >>

\* The step is a failure to open the session of start call step'.conn:
\* getUserMedia rejected, the promise of connect rejected, or the connection
\* reported an error before it opened.
OpeningFailed ==
    \/ step'.handler = "start" /\ conns'[step'.conn] = "none"
    \/ step'.handler = "connectRejected"
    \/ step'.handler = "onerror" /\ conns[step'.conn] = "connecting"

\* C15: when opening the session fails, onError is called and afterwards the
\* manager holds no stream, no node and no connection.
C15_FailedOpenIsReportedAndReleased ==
    [][OpeningFailed =>
        /\ step'.calls # <<>> /\ step'.calls[1] = "onError"
        /\ mediaStream' = 0
        /\ scriptProcessorNode' = 0
        /\ sessionPromise' = 0]_vars

\* C16: an inbound audio payload that cannot be decoded is reported through
\* onError, and the stop() that handleLiveError makes releases the session:
\* the stream the manager held has its tracks stopped, the node it held is
\* disconnected, and the manager holds no stream, node or connection.
C16_UndecodableAudioStops ==
    [][(step'.handler = "onmessage" /\ step'.msg[1].audio = "malformed") =>
        /\ \E i \in 1..(Len(step'.calls) - 1) :
              step'.calls[i] = "onError" /\ step'.calls[i + 1] = "stop"
        /\ mediaStream # 0 => mediaStream \in stoppedStreams'
        /\ scriptProcessorNode # 0 => scriptProcessorNode \in disconnectedNodes'
        /\ sessionPromise # 0 => sessionPromise \in closeRequested'
        /\ mediaStream' = 0 /\ scriptProcessorNode' = 0 /\ sessionPromise' = 0]_vars

\* An undecodable audio payload has arrived on the open connection of a
\* session nothing had stopped, and its stream and node were released.
C16_Witness ==
    /\ step.handler = "onmessage"
    /\ step.msg[1].audio = "malformed"
    /\ ~step.stale
    /\ conns[step.conn] = "open"
    /\ step.conn \in stoppedStreams
    /\ step.conn \in disconnectedNodes
    /\ step.conn \in closeRequested
    /\ mediaStream = 0

\* C24: the mounted panel is Active (isLiveActive) only while the manager
\* holds a started session, its stream and its connection; in particular a
\* start() that failed and reported it through onError leaves the panel not
\* Active.
C24_ActiveOnlyWithSession ==
    (mounted /\ isLiveActive) => (mediaStream # 0 /\ sessionPromise # 0)

\* ================================================== the live streaming queue

\* The three refs of the panel that playQueuedAudio works on.
Queue ==
    [audioQueue |-> audioQueue,
     nextStartTime |-> nextStartTime,
     audioSourceNodes |-> audioSourceNodes]

SetQueue(q) ==
    /\ audioQueue' = q.audioQueue
    /\ nextStartTime' = q.nextStartTime
    /\ audioSourceNodes' = q.audioSourceNodes

\* The source playQueuedAudio creates for a buffer and starts at time start.
Source(buffer, start) ==
    [id |-> buffer.id, start |-> start, duration |-> buffer.duration,
     behind |-> buffer.behind]

\* playQueuedAudio with source.start(currentTime): the cursor is not consulted.
playQueuedAudioAtClock(q) ==
    IF q.audioQueue = <<>> \/ ~capturedIsLiveActive
    THEN q
    ELSE LET buffer == Head(q.audioQueue)
         IN  [q EXCEPT !.audioQueue = Tail(@),
                       !.nextStartTime = currentTime + buffer.duration,
                       !.audioSourceNodes = @ \cup {Source(buffer, currentTime)}]

\* playQueuedAudio: returns at once on an empty queue or when the isLiveActive
\* it closed over is false; else shifts the head of the queue and starts it at
\* max(cursor, clock), moves the cursor past it and adds it to the set.
playQueuedAudio(q) ==
    IF q.audioQueue = <<>> \/ ~capturedIsLiveActive
    THEN q
    ELSE LET buffer == Head(q.audioQueue)
             start == Max(q.nextStartTime, currentTime)
         IN  [q EXCEPT !.audioQueue = Tail(@),
                       !.nextStartTime = start + buffer.duration,
                       !.audioSourceNodes = @ \cup {Source(buffer, start)}]

\* handleLiveAudioChunk: push, then playQueuedAudio when no source is in the
\* set or the clock has reached the cursor.
handleLiveAudioChunk(q, buffer) ==
    LET pushed == [q EXCEPT !.audioQueue = Append(@, buffer)]
    IN  IF pushed.audioSourceNodes = {} \/ currentTime >= pushed.nextStartTime
        THEN playQueuedAudio(pushed)
        ELSE pushed

\* source.onended: the source leaves the set; playQueuedAudio when the queue
\* is not empty.
onended(q, source) ==
    LET deleted == [q EXCEPT !.audioSourceNodes = @ \ {source}]
    IN  IF deleted.audioQueue # <<>> THEN playQueuedAudio(deleted) ELSE deleted

\* The sources of the set that are sounding at the current clock time.
Playing == {s \in audioSourceNodes : s.start <= currentTime /\ currentTime < s.start + s.duration}

\* The buffer of the next chunk, of duration d. behind records how the chunk
\* arrives: <<e>> when the queue is empty and a source that ends at e is
\* sounding, <<>> otherwise.
Buffer(d) ==
    [id |-> arrived + 1,
     duration |-> d,
     behind |-> IF audioQueue = <<>> /\ Playing # {}
                THEN LET s == CHOOSE t \in Playing : TRUE IN <<s.start + s.duration>>
                ELSE <<>>]

\* onAudioChunk: a decoded chunk of the live session reaches the panel.
LiveAudioChunk ==
    /\ arrived < MaxChunks
    /\ arrived' = arrived + 1
    /\ \E d \in 1..MaxDuration : SetQueue(handleLiveAudioChunk(Queue, Buffer(d)))
    /\ UNCHANGED <<stoppedSources, currentTime, capturedIsLiveActive>>

\* The ended event of a source that has played to its end.
SourceEnded ==
    \E source \in audioSourceNodes :
        /\ currentTime >= source.start + source.duration
        /\ SetQueue(onended(Queue, source))
        /\ UNCHANGED <<stoppedSources, currentTime, capturedIsLiveActive, arrived>>

\* The ended event of a source that was stopped.
StoppedSourceEnded ==
    \E source \in stoppedSources :
        /\ stoppedSources' = stoppedSources \ {source}
        /\ SetQueue(onended(Queue, source))
        /\ UNCHANGED <<currentTime, capturedIsLiveActive, arrived>>

\* The reset of the refs that keeps the queue.
clearLiveAudioKeepsQueue(q) ==
    [q EXCEPT !.nextStartTime = 0, !.audioSourceNodes = {}]

\* The reset of the refs in handleCompleteTurn, startLiveSession,
\* stopLiveSession and the cleanup of the effect: the queue is emptied, the
\* cursor reset and the set cleared (after each of its sources was stopped).
clearLiveAudio(q) ==
    [q EXCEPT !.audioQueue = <<>>, !.nextStartTime = 0, !.audioSourceNodes = {}]

\* handleCompleteTurn, its part on the queue: the queue is emptied, the cursor
\* reset, every source of the set stopped and the set cleared.
handleCompleteTurn ==
    /\ SetQueue(clearLiveAudio(Queue))
    /\ stoppedSources' = stoppedSources \cup audioSourceNodes
    /\ UNCHANGED <<currentTime, capturedIsLiveActive, arrived>>

\* The audio clock advances.
Tick ==
    /\ currentTime < MaxTime
    /\ currentTime' = currentTime + 1
    /\ UNCHANGED <<audioQueue, nextStartTime, audioSourceNodes, stoppedSources,
                   capturedIsLiveActive, arrived>>

\* handleLiveError as the manager's onError calls it during a session: the
\* panel's flags are cleared and the manager is stopped; the refs of the live
\* audio queue are not touched. A run has one failure at most.
LiveError ==
    /\ step.handler # "handleLiveError"
    /\ SetManager(handleLiveError(Manager))
    /\ SetPanel(FALSE, FALSE)
    /\ Step("handleLiveError", 0, <<>>, <<"stop">>, FALSE)
    /\ UNCHANGED <<startCalls, wiredNodes, conns, startBudget, messageBudget, mounted,
                   liveTranscriptionTurns>>
    /\ UNCHANGED queueVars

\* The refs as the panel initialises them.
InitQueueRefs ==
    /\ audioQueue = <<>>
    /\ nextStartTime = 0
    /\ audioSourceNodes = {}
    /\ stoppedSources = {}
    /\ currentTime = 0
    /\ arrived = 0

\* The first render: isLiveActive is false.
InitQueueIdle == InitQueueRefs /\ capturedIsLiveActive = FALSE

\* A playQueuedAudio of either kind of render.
InitQueue == InitQueueRefs /\ capturedIsLiveActive \in BOOLEAN

\* ------------------------------------------- claims on the live streaming queue

\* The sources of the set sound in disjoint intervals.
NoOverlap ==
    \A a, b \in audioSourceNodes :
        a # b => a.start + a.duration <= b.start \/ b.start + b.duration <= a.start

\* C9: whenever a chunk is scheduled, its start is the greater of the end-time
\* cursor and the clock, and the cursor moves to its start plus its duration,
\* which is never before the end of a source of the set; the play intervals of
\* the sources of the set never overlap.
C9_ScheduledAtCursorOrClock ==
    [][/\ \A s \in audioSourceNodes' \ audioSourceNodes :
            /\ s.start = Max(nextStartTime, currentTime)
            /\ nextStartTime' = s.start + s.duration
       /\ \A s \in audioSourceNodes' : s.start + s.duration <= nextStartTime'
       /\ NoOverlap']_vars

\* Two chunks are scheduled and both in the set, the later one on the cursor
\* and not on the clock; the first is sounding.
C9_Witness ==
    \E a, b \in audioSourceNodes :
        /\ a.id < b.id
        /\ a.start <= currentTime /\ currentTime < a.start + a.duration
        /\ b.start = a.start + a.duration
        /\ b.start > currentTime

TurnCompleted ==
    /\ currentTime' = currentTime /\ arrived' = arrived /\ step' = step
    /\ nextStartTime' = 0
    /\ stoppedSources' = stoppedSources \cup audioSourceNodes
    /\ audioSourceNodes' \subseteq audioSourceNodes
    /\ audioSourceNodes # {} \/ audioQueue # <<>> \/ nextStartTime # 0

\* C36: handleCompleteTurn leaves an empty queue, an empty source set and a
\* cursor of 0, every source that was in the set being stopped; and a source
\* is only ever created for the chunk at the head of the queue or the chunk
\* arriving in that step, so no chunk of the completed turn is started later.
C36_TurnCompleteDiscardsAudio ==
    [][/\ TurnCompleted =>
            /\ audioQueue' = <<>>
            /\ audioSourceNodes' = {}
            /\ nextStartTime' = 0
            /\ \A s \in audioSourceNodes : s \in stoppedSources'
       /\ \A s \in audioSourceNodes' \ audioSourceNodes :
            \/ audioQueue # <<>> /\ s.id = Head(audioQueue).id
            \/ arrived' = arrived + 1 /\ s.id = arrived']_vars

\* A turn-complete has discarded a queued chunk and stopped a source that
\* was sounding.
C36_Witness ==
    /\ arrived = 2
    /\ audioQueue = <<>> /\ audioSourceNodes = {} /\ nextStartTime = 0
    /\ \E s \in stoppedSources : s.id = 1 /\ s.start <= currentTime
                                  /\ currentTime < s.start + s.duration

\* C25: when a failure of the live session has been reported to the panel
\* (handleLiveError has run), both transcript accumulators and the turn
\* history of the manager are empty, the live audio queue is empty and no
\* live audio source is left playing or scheduled.
C25_FailureResetsTranscriptAndAudio ==
    [][(step.handler # "handleLiveError" /\ step'.handler = "handleLiveError") =>
        /\ currentInputTranscription' = <<>>
        /\ currentOutputTranscription' = <<>>
        /\ accumulatedTurns' = <<>>
        /\ mediaStream' = 0 /\ scriptProcessorNode' = 0 /\ sessionPromise' = 0
        /\ audioQueue' = <<>>
        /\ audioSourceNodes' = {}]_vars

\* ============================================================= AudioPlayer

\* The rates the player is given.
PlaybackRates == {1, 2}

Min(a, b) == IF a <= b THEN a ELSE b

\* The refs and state of the player that stopPlayback works on; ended counts
\* the onPlaybackEnded calls of the running task.
Player ==
    [sourceNodeRef |-> sourceNodeRef,
     isPlaying |-> isPlaying,
     progress |-> progress,
     offsetRef |-> offsetRef,
     animationFrameRef |-> animationFrameRef,
     framePending |-> framePending,
     stoppedSourceNodes |-> stoppedSourceNodes,
     activeSourceNodes |-> activeSourceNodes,
     ended |-> 0]

SetPlayer(p) ==
    /\ sourceNodeRef' = p.sourceNodeRef
    /\ isPlaying' = p.isPlaying
    /\ progress' = p.progress
    /\ offsetRef' = p.offsetRef
    /\ animationFrameRef' = p.animationFrameRef
    /\ framePending' = p.framePending
    /\ stoppedSourceNodes' = p.stoppedSourceNodes
    /\ activeSourceNodes' = p.activeSourceNodes

\* stopPlayback without its cancelAnimationFrame.
stopPlaybackKeepsFrame(p) ==
    [p EXCEPT
        !.stoppedSourceNodes = IF p.sourceNodeRef # 0 THEN @ \cup {p.sourceNodeRef} ELSE @,
        !.activeSourceNodes = @ \ {p.sourceNodeRef},
        !.sourceNodeRef = 0,
        !.isPlaying = FALSE,
        !.progress = 0,
        !.offsetRef = 0,
        !.ended = @ + 1]

\* stopPlayback that forgets its source without stopping it.
stopPlaybackWithoutStop(p) ==
    [p EXCEPT
        !.sourceNodeRef = 0,
        !.isPlaying = FALSE,
        !.progress = 0,
        !.offsetRef = 0,
        !.framePending = IF p.animationFrameRef # 0 THEN FALSE ELSE @,
        !.animationFrameRef = 0,
        !.ended = @ + 1]

\* stopPlayback: the source, when there is one, is stopped, disconnected and
\* forgotten; isPlaying, progress and the offset are reset; a requested frame
\* is cancelled; onPlaybackEnded is called.
stopPlayback(p) ==
    [p EXCEPT
        !.stoppedSourceNodes = IF p.sourceNodeRef # 0 THEN @ \cup {p.sourceNodeRef} ELSE @,
        !.activeSourceNodes = @ \ {p.sourceNodeRef},
        !.sourceNodeRef = 0,
        !.isPlaying = FALSE,
        !.progress = 0,
        !.offsetRef = 0,
        !.framePending = IF p.animationFrameRef # 0 THEN FALSE ELSE @,
        !.animationFrameRef = 0,
        !.ended = @ + 1]

PlayerStep(handler, source, p) ==
    playerStep' = [handler |-> handler, source |-> source, ended |-> p.ended]

\* handlePlayPause while playing: the elapsed time times the rate is added to
\* the offset, then stopPlayback runs.
Pause ==
    /\ audioBuffer # 0 /\ isPlaying
    /\ LET accumulated ==
               [Player EXCEPT !.offsetRef = @ + (currentTime - startTimeRef) * playbackRate]
           p == stopPlayback(accumulated)
       IN  SetPlayer(p) /\ PlayerStep("pause", sourceNodeRef, p)
    /\ UNCHANGED <<audioBuffer, playbackRate, startTimeRef, frameIsPlaying, playsLeft>>

\* handlePlayPause while not playing: startPlayback(audioBuffer, offsetRef.current),
\* which runs stopPlayback, creates and starts a source at startOffset / playbackRate
\* of the buffer, stores the clock and startOffset and requests a frame for the
\* updateProgress of this render.
Play ==
    /\ audioBuffer # 0 /\ ~isPlaying
    /\ playsLeft > 0
    /\ playsLeft' = playsLeft - 1
    /\ LET startOffset == offsetRef
           source == MaxPlays - playsLeft + 1
           stopped == stopPlayback(Player)
           p == [stopped EXCEPT !.sourceNodeRef = source,
                                !.activeSourceNodes = @ \cup {source},
                                !.offsetRef = startOffset,
                                !.isPlaying = TRUE,
                                !.animationFrameRef = 1,
                                !.framePending = TRUE]
       IN  SetPlayer(p) /\ PlayerStep("play", source, p)
    /\ startTimeRef' = currentTime
    /\ frameIsPlaying' = isPlaying
    /\ UNCHANGED <<audioBuffer, playbackRate>>

\* The Stop button.
Stop ==
    /\ audioBuffer # 0 /\ isPlaying
    /\ LET p == stopPlayback(Player)
       IN  SetPlayer(p) /\ PlayerStep("stop", sourceNodeRef, p)
    /\ UNCHANGED <<audioBuffer, playbackRate, startTimeRef, frameIsPlaying, playsLeft>>

\* The source of the player has played its buffer to the end: onended finds
\* it in sourceNodeRef and runs stopPlayback.
PlaybackEnded ==
    /\ sourceNodeRef # 0
    /\ (currentTime - startTimeRef) * playbackRate * playbackRate
         >= audioBuffer * playbackRate - offsetRef
    /\ LET p == stopPlayback(Player)
       IN  SetPlayer(p) /\ PlayerStep("ended", sourceNodeRef, p)
    /\ UNCHANGED <<audioBuffer, playbackRate, startTimeRef, frameIsPlaying, playsLeft>>

\* The ended event of a source that was stopped: onended does not find it in
\* sourceNodeRef and does nothing.
StoppedPlaybackEnded ==
    \E source \in stoppedSourceNodes :
        /\ stoppedSourceNodes' = stoppedSourceNodes \ {source}
        /\ PlayerStep("staleEnded", source, Player)
        /\ UNCHANGED <<audioBuffer, playbackRate, isPlaying, progress, sourceNodeRef,
                       animationFrameRef, startTimeRef, offsetRef, framePending,
                       frameIsPlaying, playsLeft, activeSourceNodes>>

\* The requested frame runs updateProgress.
AnimationFrame ==
    /\ framePending
    /\ IF ~frameIsPlaying \/ audioBuffer = 0
       THEN /\ framePending' = FALSE
            /\ PlayerStep("frame", sourceNodeRef, Player)
            /\ UNCHANGED <<isPlaying, progress, sourceNodeRef, animationFrameRef, offsetRef,
                           stoppedSourceNodes, activeSourceNodes>>
       ELSE LET elapsed == (currentTime - startTimeRef + offsetRef) * playbackRate
                shown == [Player EXCEPT !.progress = Min(elapsed, audioBuffer)]
                p == IF elapsed >= audioBuffer
                     THEN stopPlayback([shown EXCEPT !.framePending = FALSE])
                     ELSE [shown EXCEPT !.animationFrameRef = 1, !.framePending = TRUE]
            IN  SetPlayer(p) /\ PlayerStep("frame", sourceNodeRef, p)
    /\ UNCHANGED <<audioBuffer, playbackRate, startTimeRef, frameIsPlaying, playsLeft>>

\* The parent gives the player another buffer or rate: the cleanup of the
\* effect and the effect itself each run stopPlayback.
PropsChanged ==
    /\ \E buffer \in 0..MaxDuration, rate \in PlaybackRates :
        /\ <<buffer, rate>> # <<audioBuffer, playbackRate>>
        /\ audioBuffer' = buffer
        /\ playbackRate' = rate
    /\ LET p == stopPlayback(stopPlayback(Player))
       IN  SetPlayer(p) /\ PlayerStep("effect", sourceNodeRef, p)
    /\ UNCHANGED <<startTimeRef, frameIsPlaying, playsLeft>>

\* The player after its first render, nothing playing.
InitPlayerRefs ==
    /\ isPlaying = FALSE
    /\ progress = 0
    /\ sourceNodeRef = 0
    /\ animationFrameRef = 0
    /\ startTimeRef = 0
    /\ offsetRef = 0
    /\ framePending = FALSE
    /\ frameIsPlaying = FALSE
    /\ stoppedSourceNodes = {}
    /\ activeSourceNodes = {}
    /\ playerStep = [handler |-> "mount", source |-> 0, ended |-> 1]

InitPlayerIdle == InitPlayerRefs /\ audioBuffer = 0 /\ playbackRate = 1 /\ playsLeft = 0

InitPlayer ==
    /\ InitPlayerRefs
    /\ audioBuffer \in 0..MaxDuration
    /\ playbackRate \in PlaybackRates
    /\ playsLeft = MaxPlays

\* ----------------------------------------------- claims on the AudioPlayer

\* The step is a task of the player run by one of the handlers (the clock
\* does not move within a task).
PlayerRan(handlers) == playerStep'.handler \in handlers /\ currentTime' = currentTime

\* C11: a pause while playing adds the elapsed clock time times the rate to
\* the stored offset and stops the source; the player is then not playing,
\* without a source, and keeps that offset, from which the next play starts.
C11_PauseKeepsOffset ==
    [][PlayerRan({"pause"}) =>
        /\ offsetRef' = offsetRef + (currentTime - startTimeRef) * playbackRate
        /\ sourceNodeRef' = 0
        /\ sourceNodeRef \in stoppedSourceNodes'
        /\ ~isPlaying']_vars

\* C12: stopPlayback, from whatever state it is called in (the Stop button, a
\* pause, the end of the source, a change of buffer or rate), leaves no
\* source, a zero offset and progress, a player that is not playing and no
\* requested frame, stops the source there was, and calls onPlaybackEnded.
C12_StopResets ==
    [][PlayerRan({"stop", "pause", "ended", "effect"}) =>
        /\ sourceNodeRef' = 0
        /\ sourceNodeRef # 0 => sourceNodeRef \in stoppedSourceNodes'
        /\ offsetRef' = 0
        /\ progress' = 0
        /\ ~isPlaying'
        /\ animationFrameRef' = 0
        /\ ~framePending'
        /\ playerStep'.ended >= 1]_vars

\* The Stop button was pressed while a source had been playing for some time
\* and its frame had not run yet.
C12_Witness ==
    /\ playerStep.handler = "stop"
    /\ playerStep.source # 0
    /\ playerStep.source \in stoppedSourceNodes
    /\ currentTime > startTimeRef
    /\ frameIsPlaying = FALSE
    /\ ~framePending /\ animationFrameRef = 0

\* C23: a progress tick (the requested animation frame) of a player that is
\* playing shows the progress (elapsed + offset) * rate / duration, and when
\* that has reached 1 it runs stopPlayback with its onPlaybackEnded; so an
\* uninterrupted playback from offset 0 ends with progress 1 after
\* duration / rate.
C23_ProgressFollowsClock ==
    [][(PlayerRan({"frame"}) /\ isPlaying /\ sourceNodeRef # 0 /\ audioBuffer # 0) =>
        LET elapsed == (currentTime - startTimeRef + offsetRef) * playbackRate
        IN  IF elapsed >= audioBuffer
            THEN sourceNodeRef' = 0 /\ ~isPlaying' /\ playerStep'.ended >= 1
            ELSE progress' = elapsed /\ isPlaying' /\ framePending']_vars

\* C34: starting playback and pausing do not call onPlaybackEnded (the
\* signal on which the application moves to the next chunk of the playlist);
\* the signal is left to the end of a playing buffer and to the Stop button.
C34_PlayAndPauseDoNotSignalEnd ==
    [][PlayerRan({"play", "pause"}) => playerStep'.ended = 0]_vars

\* C28: after every step of the player at most one of its sources is
\* started and not stopped, and it is the one in sourceNodeRef; a start
\* leaves only the source it created; the ended event of a source that was
\* replaced or stopped leaves the current source, and the playing state, as
\* they were.
C28_OneActiveSource ==
    [][/\ Cardinality(activeSourceNodes') <= 1
       /\ activeSourceNodes' \subseteq {sourceNodeRef'}
       /\ PlayerRan({"play"}) => activeSourceNodes' = {playerStep'.source}
       /\ PlayerRan({"staleEnded"}) =>
             /\ sourceNodeRef' = sourceNodeRef
             /\ activeSourceNodes' = activeSourceNodes
             /\ isPlaying' = isPlaying]_vars

\* A second source is playing while the ended event of the first one, which
\* was stopped, has just been handled.
C28_Witness ==
    /\ playerStep.handler = "staleEnded"
    /\ playerStep.source # 0
    /\ sourceNodeRef # 0
    /\ sourceNodeRef # playerStep.source
    /\ activeSourceNodes = {sourceNodeRef}
    /\ isPlaying

\* ====================================================== audioUtils: PCM
\* createPcmBlob, encode, decode and decodeAudioData of src/utils/audioUtils.ts.
\* A sample value x is held as the integer x * FullScale.

\* the factor of createPcmBlob and the divisor of decodeAudioData
Int16Scale == 32768

\* the sample value 1.0
FullScale == Int16Scale * SampleSteps

Abs(a) == IF a >= 0 THEN a ELSE -a

\* the integer part of num / den, den > 0 (the truncation of a typed-array store)
Truncate(num, den) == IF num >= 0 THEN num \div den ELSE -((-num) \div den)

\* What an Int16Array element holds after the number num / den is stored in
\* it: the integer part, modulo 2^16, read as a signed 16-bit integer.
ToInt16(num, den) == ((Truncate(num, den) + 32768) % 65536) - 32768

\* the two bytes of a 16-bit element, low byte first
Int16Bytes(v) == << (v % 65536) % 256, (v % 65536) \div 256 >>

\* new Uint8Array(int16.buffer): the bytes of the elements, in order
RECURSIVE Uint8View(_)
Uint8View(int16) ==
    IF int16 = <<>> THEN <<>> ELSE Int16Bytes(Head(int16)) \o Uint8View(Tail(int16))

\* new Int16Array(data.buffer): the elements held in the bytes, two by two
RECURSIVE Int16View(_)
Int16View(bytes) ==
    IF Len(bytes) < 2 THEN <<>>
    ELSE LET u == bytes[1] + 256 * bytes[2]
         IN  << IF u >= 32768 THEN u - 65536 ELSE u >> \o Int16View(SubSeq(bytes, 3, Len(bytes)))

\* encode: btoa of the bytes; three bytes give four digits, the last group
\* is padded with '=' (held as 64)
RECURSIVE encode(_)
encode(bytes) ==
    IF bytes = <<>> THEN <<>>
    ELSE LET n  == Min(3, Len(bytes))
             b1 == bytes[1]
             b2 == IF n >= 2 THEN bytes[2] ELSE 0
             b3 == IF n >= 3 THEN bytes[3] ELSE 0
             v  == b1 * 65536 + b2 * 256 + b3
         IN  << v \div 262144,
                (v \div 4096) % 64,
                IF n >= 2 THEN (v \div 64) % 64 ELSE 64,
                IF n >= 3 THEN v % 64 ELSE 64 >>
             \o encode(SubSeq(bytes, n + 1, Len(bytes)))

\* decode: atob of the digits, then the char codes
RECURSIVE decode(_)
decode(base64) ==
    IF Len(base64) < 4 THEN <<>>
    ELSE LET d3 == IF base64[3] = 64 THEN 0 ELSE base64[3]
             d4 == IF base64[4] = 64 THEN 0 ELSE base64[4]
             v  == base64[1] * 262144 + base64[2] * 4096 + d3 * 64 + d4
             group == << v \div 65536, (v \div 256) % 256, v % 256 >>
             n  == IF base64[3] = 64 THEN 1 ELSE IF base64[4] = 64 THEN 2 ELSE 3
         IN  SubSeq(group, 1, n) \o decode(SubSeq(base64, 5, Len(base64)))

\* createPcmBlob(data).data
createPcmBlob(d) ==
    encode(Uint8View([i \in 1..Len(d) |-> ToInt16(d[i], SampleSteps)]))

\* decodeAudioData(bytes, ctx, sampleRate, numChannels): the channels of the
\* buffer, each the de-interleaved elements divided by 32768
decodeAudioData(bytes, numChannels) ==
    LET dataInt16 == Int16View(bytes)
        frameCount == Len(dataInt16) \div numChannels
    IN  [channel \in 1..numChannels |->
            [i \in 1..frameCount |->
                dataInt16[(i - 1) * numChannels + channel] * SampleSteps]]

\* sample values in [-1, 1]: both ends, the values next to them, values
\* around zero and values between two 16-bit steps
PcmSamples ==
    { -FullScale, 1 - FullScale, -SampleSteps - 1, -1, 0, 1, SampleSteps + 1,
      FullScale - SampleSteps, FullScale - 1, FullScale }

PcmInputs == UNION { [1..n -> PcmSamples] : n \in 1..MaxPcmLength }

\* createPcmBlob(data), as the onaudioprocess handler of the manager calls it
CreatePcmBlob ==
    /\ pcmStep = "input"
    /\ pcmBlob' = createPcmBlob(data)
    /\ pcmStep' = "encoded"
    /\ UNCHANGED <<data, pcmDecoded>>

\* decodeAudioData(decode(blob.data), ctx, rate, 1), as onmessage decodes a payload
DecodePcm ==
    /\ pcmStep = "encoded"
    /\ pcmDecoded' = decodeAudioData(decode(pcmBlob), 1)
    /\ pcmStep' = "decoded"
    /\ UNCHANGED <<data, pcmBlob>>

InitPcmIdle == data = <<>> /\ pcmBlob = <<>> /\ pcmDecoded = <<>> /\ pcmStep = "idle"

InitPcm == data \in PcmInputs /\ pcmBlob = <<>> /\ pcmDecoded = <<>> /\ pcmStep = "input"

\* C17: every sample of the round trip createPcmBlob, decode, decodeAudioData
\* is within 1/32768 of the sample that was encoded, for every non-empty
\* array of samples in [-1, 1], the value +1.0 included.
C17_PcmRoundTrip ==
    pcmStep = "decoded" =>
        /\ Len(pcmDecoded) = 1
        /\ Len(pcmDecoded[1]) = Len(data)
        /\ \A i \in 1..Len(data) : Abs(pcmDecoded[1][i] - data[i]) <= SampleSteps

\* ====================================================== audioUtils: WAV
\* audioBufferToWavBlob of src/utils/audioUtils.ts. An AudioBuffer is a record
\* [numberOfChannels, sampleRate, length, channels]; a Blob is its bytes.

\* s.charCodeAt(i) for the four tags of the header
RIFF == <<82, 73, 70, 70>>

WAVE == <<87, 65, 86, 69>>

fmt == <<102, 109, 116, 32>>

dataTag == <<100, 97, 116, 97>>

\* dataView.setUint32(offset, i, true): four bytes, low byte first
writeUint32(i) ==
    << i % 256, (i \div 256) % 256, (i \div 65536) % 256, (i \div 16777216) % 256 >>

\* dataView.setUint16(offset, i, true)
writeUint16(i) == LET u == i % 65536 IN << u % 256, u \div 256 >>

\* the header with a byte rate that leaves out the channel count
WavHeaderMonoRate(b) ==
    LET numOfChan == b.numberOfChannels
        totalLength == b.length * numOfChan * 2 + 44
    IN  RIFF \o writeUint32(totalLength - 8) \o WAVE \o fmt \o writeUint32(16)
        \o writeUint16(1) \o writeUint16(numOfChan) \o writeUint32(b.sampleRate)
        \o writeUint32(b.sampleRate * 2) \o writeUint16(numOfChan * 2)
        \o writeUint16(16) \o dataTag \o writeUint32(b.length * numOfChan * 2)

\* the writes of lines 131-143, in the order of the offsets
WavHeader(b) ==
    LET numOfChan == b.numberOfChannels
        totalLength == b.length * numOfChan * 2 + 44
    IN  RIFF \o writeUint32(totalLength - 8) \o WAVE \o fmt \o writeUint32(16)
        \o writeUint16(1) \o writeUint16(numOfChan) \o writeUint32(b.sampleRate)
        \o writeUint32(b.sampleRate * numOfChan * 2) \o writeUint16(numOfChan * 2)
        \o writeUint16(16) \o dataTag \o writeUint32(b.length * numOfChan * 2)

\* interleaved[i * numOfChan + channel] = channelData[i]
interleaved(b) ==
    [k \in 1..(b.length * b.numberOfChannels) |->
        b.channels[((k - 1) % b.numberOfChannels) + 1][((k - 1) \div b.numberOfChannels) + 1]]

\* The integer part of s * 0x7FFF for a sample 0 <= s <= 1, that is of
\* x * 32767 / FullScale for its numerator x: with x = q * SampleSteps + r
\* the product is q - (q * SampleSteps - r * 32767) / FullScale, and the
\* fraction taken off q is above 0 and at most 1 unless it is 0 or less.
ScaleBy7FFF(x) ==
    LET q == x \div SampleSteps
        r == x % SampleSteps
    IN  IF r * 32767 >= q * SampleSteps THEN q ELSE q - 1

\* the bytes of a sample that is scaled without being clamped first
WavSampleBytesUnclamped(x) ==
    Int16Bytes(IF x < 0 THEN ToInt16(x, SampleSteps) ELSE ToInt16(ScaleBy7FFF(x), 1))

\* the two bytes setInt16 writes for one sample: clamp to [-1, 1], scale by
\* 0x8000 below zero and by 0x7FFF otherwise, store as a 16-bit integer
WavSampleBytes(x) ==
    LET s == Max(-FullScale, Min(FullScale, x))
    IN  Int16Bytes(IF s < 0 THEN ToInt16(s, SampleSteps) ELSE ToInt16(ScaleBy7FFF(s), 1))

\* the bytes of the loop of lines 153-158: two per sample, in order
WavSamples(xs) ==
    [k \in 1..(2 * Len(xs)) |-> WavSampleBytes(xs[(k + 1) \div 2])[((k - 1) % 2) + 1]]

\* The bytes of the Blob: an ArrayBuffer of totalLength zero bytes, with the
\* header and the samples written from offset 0 on.
audioBufferToWavBlob(b) ==
    LET totalLength == b.length * b.numberOfChannels * 2 + 44
        written == WavHeader(b) \o WavSamples(interleaved(b))
    IN  [i \in 1..totalLength |-> IF i <= Len(written) THEN written[i] ELSE 0]

WavChannelCounts == {1, 2}

WavSampleRates == {16000, 24000, 48000}

\* sample values of an AudioBuffer: both ends of [-1, 1], values next to zero
\* and to 1, and a value above 1 that the clamp cuts
WavSampleValues == { -FullScale, -1, FullScale \div 2, FullScale - 1, 2 * FullScale }

\* a buffer of c channels and n frames whose samples follow a fixed pattern
PatternBuffer(c, rate, n) ==
    [numberOfChannels |-> c, sampleRate |-> rate, length |-> n,
     channels |-> [ch \in 1..c |-> [i \in 1..n |-> (((7 * i + ch) % 5) - 2) * Int16Scale]]]

\* audioBufferToWavBlob(chunk.audioBuffer), as handleDownloadChunk calls it
WriteWav ==
    /\ wavStep = "input"
    /\ wavBlob' = audioBufferToWavBlob(wavBuffer)
    /\ wavStep' = "written"
    /\ UNCHANGED wavBuffer

InitWavIdle == wavBuffer = <<>> /\ wavBlob = <<>> /\ wavStep = "idle"

\* the buffer given: every buffer of up to MaxWavLength frames over the
\* sample values, and one of 100 frames per channel count and rate
InitWav ==
    /\ \E c \in WavChannelCounts, rate \in WavSampleRates :
          \/ \E n \in 1..MaxWavLength : \E chs \in [1..c -> [1..n -> WavSampleValues]] :
                wavBuffer = [numberOfChannels |-> c, sampleRate |-> rate, length |-> n,
                             channels |-> chs]
          \/ wavBuffer = PatternBuffer(c, rate, 100)
    /\ wavBlob = <<>>
    /\ wavStep = "input"

\* the little-endian fields of a header, read back at a byte offset
ReadUint32(bytes, offset) ==
    bytes[offset + 1] + 256 * bytes[offset + 2] + 65536 * bytes[offset + 3]
    + 16777216 * bytes[offset + 4]

ReadUint16(bytes, offset) == bytes[offset + 1] + 256 * bytes[offset + 2]

\* C18: the Blob has 44 + length * channels * 2 bytes, and its header holds
\* RIFF size = total - 8, format tag 1, the channel count, the sample rate,
\* byteRate = sampleRate * channels * 2, blockAlign = channels * 2,
\* bitsPerSample = 16 and dataSize = length * channels * 2.
C18_WavHeader ==
    wavStep = "written" =>
        LET c == wavBuffer.numberOfChannels
            n == wavBuffer.length
        IN  /\ Len(wavBlob) = 44 + n * c * 2
            /\ ReadUint32(wavBlob, 4) = Len(wavBlob) - 8
            /\ ReadUint16(wavBlob, 20) = 1
            /\ ReadUint16(wavBlob, 22) = c
            /\ ReadUint32(wavBlob, 24) = wavBuffer.sampleRate
            /\ ReadUint32(wavBlob, 28) = wavBuffer.sampleRate * c * 2
            /\ ReadUint16(wavBlob, 32) = c * 2
            /\ ReadUint16(wavBlob, 34) = 16
            /\ ReadUint32(wavBlob, 40) = n * c * 2

\* The buffer of 2 channels, 24000 Hz and 100 frames has been written:
\* byteRate 96000, blockAlign 4, dataSize 400.
C18_Witness ==
    /\ wavStep = "written"
    /\ wavBuffer.numberOfChannels = 2
    /\ wavBuffer.sampleRate = 24000
    /\ wavBuffer.length = 100
    /\ Len(wavBlob) = 444
    /\ ReadUint32(wavBlob, 28) = 96000
    /\ ReadUint16(wavBlob, 32) = 4
    /\ ReadUint32(wavBlob, 40) = 400

\* the 16-bit sample of frame i of channel ch in the Blob, read back from
\* the interleaved position (i - 1) * channels + (ch - 1) after the header
WrittenSample(ch, i) ==
    LET u == ReadUint16(wavBlob, 44 + 2 * ((i - 1) * wavBuffer.numberOfChannels + (ch - 1)))
    IN  IF u >= 32768 THEN u - 65536 ELSE u

\* C27: every sample x is written at its interleaved position as a 16-bit
\* value without wrap-around: 32767 for x >= 1, -32768 for x <= -1, the
\* integer part of x * 32768 for -1 < x < 0 and the integer part of
\* x * 32767 for 0 <= x < 1.
C27_WavSamplesClampedAndScaled ==
    wavStep = "written" =>
        \A ch \in 1..wavBuffer.numberOfChannels : \A i \in 1..wavBuffer.length :
            LET x == wavBuffer.channels[ch][i]
                v == WrittenSample(ch, i)
            IN  /\ v \in -32768..32767
                /\ x >= FullScale => v = 32767
                /\ x <= -FullScale => v = -32768
                /\ (-FullScale < x /\ x < 0) =>
                      (v - 1) * SampleSteps < x /\ x <= v * SampleSteps
                /\ (0 <= x /\ x < FullScale) =>
                      /\ v * SampleSteps <= x /\ x < (v + 2) * SampleSteps
                      /\ x <= 65536 => (v * FullScale <= x * 32767
                                         /\ x * 32767 - v * FullScale < FullScale)

\* A buffer of two channels has been written whose first channel holds -1.0
\* and whose second channel holds a sample above 1: they are at positions 0
\* and 1 as -32768 and 32767.
C27_Witness ==
    /\ wavStep = "written"
    /\ wavBuffer.numberOfChannels = 2
    /\ wavBuffer.length = 2
    /\ wavBuffer.channels[1][1] = -FullScale
    /\ wavBuffer.channels[2][1] = 2 * FullScale
    /\ wavBuffer.channels[1][2] = FullScale \div 2
    /\ ReadUint16(wavBlob, 44) = 32768
    /\ ReadUint16(wavBlob, 46) = 32767
    /\ ReadUint16(wavBlob, 48) = 16383

\* C39: a sample of the buffer that decodeAudioData gives for a 16-bit value
\* v (v / 32768) is written to the WAV data as v again.
C39_DecodedSampleRoundTrips ==
    wavStep = "written" =>
        \A ch \in 1..wavBuffer.numberOfChannels : \A i \in 1..wavBuffer.length :
            LET x == wavBuffer.channels[ch][i]
                v == x \div SampleSteps
            IN  (/\ x % SampleSteps = 0
                 /\ v \in -32768..32767
                 /\ decodeAudioData(Int16Bytes(v), 1)[1][1] = x) =>
                    WrittenSample(ch, i) = v

\* ========================================================= DownloadOptions
\* handleDownloadCombined of src/unnamed/part_000. A buffer carries the
\* identity of its object in the field id.

\* the sample i of channel ch of the chunk with identity id
ChunkSample(id, ch, i) == (((7 * i + 3 * ch + 11 * id) % 13) - 6) * (FullScale \div 8)

\* the chunk with identity id: c channels, n frames
ChunkBuffer(id, c, rate, n) ==
    [id |-> id, numberOfChannels |-> c, sampleRate |-> rate, length |-> n,
     channels |-> [ch \in 1..c |-> [i \in 1..n |-> ChunkSample(id, ch, i)]]]

\* outputAudioContext.createBuffer(c, n, rate): a new object, all samples zero
createBuffer(id, c, n, rate) ==
    [id |-> id, numberOfChannels |-> c, sampleRate |-> rate, length |-> n,
     channels |-> [ch \in 1..c |-> [i \in 1..n |-> 0]]]

\* tempBuffers.reduce((acc, buffer) => acc + buffer.length, 0)
RECURSIVE totalLength(_)
totalLength(tempBuffers) ==
    IF tempBuffers = <<>> THEN 0
    ELSE Head(tempBuffers).length + totalLength(Tail(tempBuffers))

\* target.set(source, offset) that ignores its offset
setAtStart(target, source, offset) ==
    [j \in 1..Len(target) |-> IF j <= Len(source) THEN source[j] ELSE target[j]]

\* target.set(source, offset) of a Float32Array
set(target, source, offset) ==
    [j \in 1..Len(target) |->
        IF offset < j /\ j <= offset + Len(source) THEN source[j - offset] ELSE target[j]]

\* getChannelData(channel) throws for a channel the buffer does not have
CopyThrows(concatenatedBuffer, buffer) ==
    buffer.numberOfChannels > concatenatedBuffer.numberOfChannels

\* The loop of lines 47-52 from the buffer k on: concatenatedBuffer after it,
\* or Null when a getChannelData threw.
RECURSIVE CopyFrom(_, _, _, _)
CopyFrom(concatenatedBuffer, tempBuffers, k, offset) ==
    IF k > Len(tempBuffers) THEN concatenatedBuffer
    ELSE IF CopyThrows(concatenatedBuffer, tempBuffers[k]) THEN Null
    ELSE LET buffer == tempBuffers[k]
             copied == [concatenatedBuffer EXCEPT !.channels =
                          [ch \in 1..concatenatedBuffer.numberOfChannels |->
                              IF ch <= buffer.numberOfChannels
                              THEN set(@[ch], buffer.channels[ch], offset)
                              ELSE @[ch]]]
         IN  CopyFrom(copied, tempBuffers, k + 1, offset + buffer.length)

\* combinedBuffer of lines 34-54 for a non-empty list of chunks, or Null
\* when the try block threw
Combine(tempBuffers) ==
    IF Len(tempBuffers) > 1
    THEN CopyFrom(createBuffer(Len(tempBuffers) + 1, tempBuffers[1].numberOfChannels,
                               totalLength(tempBuffers), tempBuffers[1].sampleRate),
                  tempBuffers, 1, 0)
    ELSE tempBuffers[1]

\* handleDownloadCombined: nothing for an empty list; otherwise the chunks are
\* combined and the result is written as a WAV Blob and downloaded, or the
\* catch block alerts.
HandleDownloadCombined ==
    /\ combineStep = "input"
    /\ IF generatedAudioChunks = <<>>
       THEN /\ combineStep' = "returned"
            /\ UNCHANGED <<combinedBuffer, wavVars>>
       ELSE LET result == Combine(generatedAudioChunks)
            IN  IF result = Null
                THEN /\ combineStep' = "threw"
                     /\ UNCHANGED <<combinedBuffer, wavVars>>
                ELSE /\ combineStep' = "combined"
                     /\ combinedBuffer' = result
                     /\ wavBuffer' = result
                     /\ wavBlob' = audioBufferToWavBlob(result)
                     /\ wavStep' = "written"
    /\ UNCHANGED <<generatedAudioChunks, chunksBefore>>

CombineChannelCounts == {1, 2}

CombineSampleRates == {24000, 48000}

InitCombineIdle ==
    /\ generatedAudioChunks = <<>>
    /\ chunksBefore = <<>>
    /\ combinedBuffer = Null
    /\ combineStep = "idle"

\* the chunks given: every list of up to MaxBuffers chunks of up to
\* MaxBufferLength frames, and the list of lengths 100, 50, 200
InitCombine ==
    /\ \/ \E n \in 0..MaxBuffers :
             \E c \in [1..n -> CombineChannelCounts], rate \in [1..n -> CombineSampleRates],
                len \in [1..n -> 1..MaxBufferLength] :
                generatedAudioChunks = [k \in 1..n |-> ChunkBuffer(k, c[k], rate[k], len[k])]
       \/ generatedAudioChunks = << ChunkBuffer(1, 1, 24000, 100), ChunkBuffer(2, 1, 24000, 50),
                                    ChunkBuffer(3, 1, 24000, 200) >>
    /\ chunksBefore = generatedAudioChunks
    /\ combinedBuffer = Null
    /\ combineStep = "input"

\* the chunks all have the channel count and the sample rate of the first
SameFormat(list) ==
    \A k \in 1..Len(list) :
        /\ list[k].numberOfChannels = list[1].numberOfChannels
        /\ list[k].sampleRate = list[1].sampleRate

\* C19: for two or more chunks of one channel count and sample rate the
\* handler combines them into a new buffer whose length is the sum of the
\* lengths and whose channels are the chunks' channels one after the other in
\* the order of the list; the chunks themselves are unchanged.
C19_CombinerConcatenates ==
    (combineStep # "input" /\ Len(chunksBefore) >= 2 /\ SameFormat(chunksBefore)) =>
        /\ combineStep = "combined"
        /\ \A k \in 1..Len(chunksBefore) : combinedBuffer.id # chunksBefore[k].id
        /\ combinedBuffer.numberOfChannels = chunksBefore[1].numberOfChannels
        /\ combinedBuffer.sampleRate = chunksBefore[1].sampleRate
        /\ combinedBuffer.length = totalLength(chunksBefore)
        /\ \A ch \in 1..combinedBuffer.numberOfChannels :
              /\ Len(combinedBuffer.channels[ch]) = totalLength(chunksBefore)
              /\ \A k \in 1..Len(chunksBefore) : \A i \in 1..chunksBefore[k].length :
                    combinedBuffer.channels[ch][totalLength(SubSeq(chunksBefore, 1, k - 1)) + i]
                        = chunksBefore[k].channels[ch][i]
        /\ generatedAudioChunks = chunksBefore

\* The chunks of 100, 50 and 200 frames have been combined into 350 frames,
\* the second chunk starting at frame 100 and the third at frame 150.
C19_Witness ==
    /\ combineStep = "combined"
    /\ Len(chunksBefore) = 3
    /\ chunksBefore[1].length = 100
    /\ chunksBefore[2].length = 50
    /\ chunksBefore[3].length = 200
    /\ combinedBuffer.length = 350
    /\ combinedBuffer.channels[1][101] = chunksBefore[2].channels[1][1]
    /\ combinedBuffer.channels[1][101] # chunksBefore[1].channels[1][1]
    /\ combinedBuffer.channels[1][151] = chunksBefore[3].channels[1][1]

InitUtilsIdle == InitPcmIdle /\ InitWavIdle /\ InitCombineIdle

\* ============================================= onmessage: callback order
\* onmessage of the manager (src/unnamed/part_005:233-272) as the async
\* function it is: the part up to the await of decodeAudioData runs in the
\* task of the message event, the rest resumes as a microtask.

\* the callbacks onmessage(msg) invokes before it reaches the await
onmessageSyncCalls(msg) ==
    (IF msg.outputTranscription # <<>> THEN <<"onTranscriptionUpdate">> ELSE <<>>)
    \o (IF msg.inputTranscription # <<>> THEN <<"onTranscriptionUpdate">> ELSE <<>>)
    \o (IF msg.turnComplete THEN <<"onCompleteTurn">> ELSE <<>>)

\* the callback onmessage invokes when it resumes after the await: the
\* promise of decodeAudioData fulfilled, or it rejected and the catch runs
onmessageResumeCall(audio) == IF audio = "pcm" THEN "onAudioChunk" ELSE "onError"

\* the entries of the log for the callbacks calls of the message with index n
Logged(n, calls) == [k \in 1..Len(calls) |-> [message |-> n, callback |-> calls[k]]]

\* a task may start whatever the microtask queue holds
TaskMayStartAnytime(queue) == TRUE

\* The event loop starts the next task only when the microtask queue is
\* empty; decodeAudioData of audioUtils has no await of its own, so its
\* promise is settled when it returns and the awaiting onmessage resumes in
\* the microtask checkpoint of the same task.
TaskMayStart(queue) == queue = <<>>

\* The message event of the next inbound message: onmessage(msg) runs up to
\* the await, or to its end when the message has no audio payload.
OnMessageTask ==
    /\ Len(arrivedMessages) < MaxDeliveries
    /\ TaskMayStart(microtaskQueue)
    /\ \E msg \in Messages :
        LET n == Len(arrivedMessages) + 1
        IN  /\ arrivedMessages' = Append(arrivedMessages, msg)
            /\ callbackLog' = callbackLog \o Logged(n, onmessageSyncCalls(msg))
            /\ microtaskQueue' =
                 IF msg.audio = "absent" THEN microtaskQueue
                 ELSE Append(microtaskQueue, [message |-> n, audio |-> msg.audio])

\* The first suspended onmessage resumes after its await.
OnMessageResume ==
    /\ microtaskQueue # <<>>
    /\ callbackLog' = callbackLog
                        \o Logged(Head(microtaskQueue).message,
                                  <<onmessageResumeCall(Head(microtaskQueue).audio)>>)
    /\ microtaskQueue' = Tail(microtaskQueue)
    /\ UNCHANGED arrivedMessages

InitDeliveryIdle == arrivedMessages = <<>> /\ microtaskQueue = <<>> /\ callbackLog = <<>>

InitDelivery == InitDeliveryIdle


\* C22: the consumer callbacks are invoked in the order of arrival of the
\* messages that cause them: no callback of a message is invoked after a
\* callback of a later message, and the callbacks of a message whose handler
\* has finished are all in the log.
C22_CallbacksInArrivalOrder ==
    /\ \A a, b \in 1..Len(callbackLog) :
          a < b => callbackLog[a].message <= callbackLog[b].message
    /\ \A n \in 1..Len(arrivedMessages) :
          (\A q \in 1..Len(microtaskQueue) : microtaskQueue[q].message # n) =>
              Cardinality({k \in 1..Len(callbackLog) : callbackLog[k].message = n})
                = Len(onmessageCalls(arrivedMessages[n]))
                  - (IF arrivedMessages[n].audio = "malformed" THEN 1 ELSE 0)

\* A message with audio was followed by a message with a transcript delta:
\* the audio chunk of the first was delivered before the update of the second.
C22_Witness ==
    /\ Len(arrivedMessages) = 2
    /\ arrivedMessages[1].audio = "pcm"
    /\ arrivedMessages[1].turnComplete
    /\ arrivedMessages[2].outputTranscription # <<>>
    /\ microtaskQueue = <<>>
    /\ \E a, b \in 1..Len(callbackLog) :
          /\ a < b
          /\ callbackLog[a] = [message |-> 1, callback |-> "onAudioChunk"]
          /\ callbackLog[b] = [message |-> 2, callback |-> "onTranscriptionUpdate"]

\* ================================================ generateSpeech: the split
\* script.split(/(\r?\n\r?\n|\. |\? |! |。|？|！)/).filter(s => s.trim() !== '')
\* of both variants of generateSpeech. A text is a sequence of characters;
\* "WIDE" stands for one of the characters 。 ？ ！.

\* the character of s at position i, or "" past its end
CharAt(s, i) == IF i <= Len(s) THEN s[i] ELSE ""

\* The length of the match of the regular expression at position q of s, 0
\* when it does not match there: the alternatives are tried in order.
MatchAt(s, q) ==
    LET cr1 == IF CharAt(s, q) = "\r" THEN 1 ELSE 0
        cr2 == IF CharAt(s, q + cr1 + 1) = "\r" THEN 1 ELSE 0
    IN  IF CharAt(s, q + cr1) = "\n" /\ CharAt(s, q + cr1 + 1 + cr2) = "\n"
        THEN cr1 + cr2 + 2
        ELSE IF CharAt(s, q) \in {".", "?", "!"} /\ CharAt(s, q + 1) = " " THEN 2
        ELSE IF CharAt(s, q) = "WIDE" THEN 1
        ELSE 0

\* split without the capturing group: the separators are dropped
RECURSIVE splitWithoutCapture(_, _, _)
splitWithoutCapture(s, p, q) ==
    IF q > Len(s) THEN << SubSeq(s, p, Len(s)) >>
    ELSE IF MatchAt(s, q) = 0 THEN splitWithoutCapture(s, p, q + 1)
    ELSE << SubSeq(s, p, q - 1) >>
         \o splitWithoutCapture(s, q + MatchAt(s, q), q + MatchAt(s, q))

\* String.prototype.split with a regular expression that has one capturing
\* group: from position p on, the text up to the next match, the match, and
\* the split of what follows; the text after the last match ends the array.
RECURSIVE split(_, _, _)
split(s, p, q) ==
    IF q > Len(s) THEN << SubSeq(s, p, Len(s)) >>
    ELSE IF MatchAt(s, q) = 0 THEN split(s, p, q + 1)
    ELSE << SubSeq(s, p, q - 1), SubSeq(s, q, q + MatchAt(s, q) - 1) >>
         \o split(s, q + MatchAt(s, q), q + MatchAt(s, q))

\* scriptSegments of a script
Segmenter(s) == SelectSeq(split(s, 1, 1), LAMBDA fragment : Trim(fragment) # <<>>)

\* the characters of the scripts
Characters == {"a", ".", "?", " ", "\n", "\r", "WIDE"}

\* generateSpeech computes scriptSegments
SplitScript ==
    /\ segmenterStep = "input"
    /\ segments' = Segmenter(scriptText)
    /\ segmenterStep' = "split"
    /\ UNCHANGED scriptText

InitSegmenterIdle == scriptText = <<>> /\ segments = <<>> /\ segmenterStep = "idle"

InitSegmenter ==
    /\ \E n \in 0..MaxScriptLength : scriptText \in [1..n -> Characters]
    /\ segments = <<>>
    /\ segmenterStep = "input"

\* the texts of a sequence, one after the other
RECURSIVE Flatten(_)
Flatten(texts) == IF texts = <<>> THEN <<>> ELSE Head(texts) \o Flatten(Tail(texts))

NonBlank(text) == SelectSeq(text, LAMBDA c : c \notin WhiteSpace)

\* the text has a separator somewhere in it
HasSeparator(text) == \E q \in 1..Len(text) : MatchAt(text, q) > 0

\* a separator of the script that is not a blank line
IsPunctuation(text) ==
    \/ Len(text) = 2 /\ text[1] \in {".", "?", "!"} /\ text[2] = " "
    \/ text = <<"WIDE">>

\* C26: the segments of a script are in script order, none is empty or
\* whitespace-only, and together they are the script without whitespace-only
\* fragments: their characters other than whitespace are those of the script
\* in the same order, and whatever was removed from the script was
\* whitespace; a segment is a sentence separator or holds none; an empty or
\* whitespace-only script has no segments.
C26_SegmenterKeepsText ==
    segmenterStep = "split" =>
        /\ \A k \in 1..Len(segments) : Trim(segments[k]) # <<>>
        /\ NonBlank(Flatten(segments)) = NonBlank(scriptText)
        /\ Len(Flatten(segments)) <= Len(scriptText)
        /\ \A k \in 1..Len(segments) :
              /\ \E from \in 1..Len(scriptText) :
                    SubSeq(scriptText, from, from + Len(segments[k]) - 1) = segments[k]
              /\ IsPunctuation(segments[k]) \/ ~HasSeparator(segments[k])
        /\ Trim(scriptText) = <<>> => segments = <<>>

\* A script of two sentences around a full stop has been split in three: the
\* first sentence, the separator and the second sentence.
C26_Witness ==
    /\ segmenterStep = "split"
    /\ scriptText = <<"a", ".", " ", "a">>
    /\ segments = << <<"a">>, <<".", " ">>, <<"a">> >>

\* ======================================= onaudioprocess: microphone frames
\* The handler onopen puts on scriptProcessorNode, and the promise of
\* ai.live.connect its frames wait on.

\* The script processor nodes that have an onaudioprocess handler.
HandlerNodes == {w[2] : w \in wiredNodes}

\* An onaudioprocess handler that calls sendRealtimeInput on the connection
\* without waiting for the promise.
sendWithoutThen(f, p) ==
    IF conns[p] \in {"connecting", "open"}
    THEN [pending |-> pendingSends,
          sent |-> Append(sentFrames, [frame |-> f, conn |-> p, waited |-> FALSE]),
          dropped |-> droppedFrames]
    ELSE [pending |-> pendingSends, sent |-> sentFrames, dropped |-> droppedFrames \cup {f}]

\* sessionPromise.then(session => session.sendRealtimeInput(...)) for frame f
\* on promise p: the callback waits while the promise is pending, never runs
\* when it was rejected, and runs in the microtasks of the handler when it
\* is resolved, where the send goes out if the connection is open.
thenSend(f, p) ==
    IF p \in resolvedSessions
    THEN IF conns[p] = "open"
         THEN [pending |-> pendingSends,
               sent |-> Append(sentFrames, [frame |-> f, conn |-> p, waited |-> FALSE]),
               dropped |-> droppedFrames]
         ELSE [pending |-> pendingSends, sent |-> sentFrames,
               dropped |-> droppedFrames \cup {f}]
    ELSE IF conns[p] = "rejected"
         THEN [pending |-> pendingSends, sent |-> sentFrames,
               dropped |-> droppedFrames \cup {f}]
         ELSE [pending |-> Append(pendingSends, [frame |-> f, conn |-> p]),
               sent |-> sentFrames, dropped |-> droppedFrames]

\* The connection of a start call is open and its promise has not resolved
\* yet: the resolution is in the microtasks that follow onopen, before any
\* other event is handled.
ResolutionDue == \E k \in 1..UsedStarts : conns[k] = "open" /\ k \notin resolvedSessions

\* An onaudioprocess event of a node that has the handler: createPcmBlob of
\* the frame, then sessionPromise!.then(...) on the manager's promise of that
\* moment, which throws when the promise is null. Whether a node that stop()
\* has disconnected still gets the event is left to the browser.
AudioProcess ==
    /\ ~ResolutionDue
    /\ capturedFrames < MaxFrames
    /\ \E node \in HandlerNodes :
        /\ capturedFrames' = capturedFrames + 1
        /\ IF sessionPromise = 0
           THEN /\ droppedFrames' = droppedFrames \cup {capturedFrames + 1}
                /\ UNCHANGED <<pendingSends, sentFrames>>
           ELSE LET after == thenSend(capturedFrames + 1, sessionPromise)
                IN  /\ pendingSends' = after.pending
                    /\ sentFrames' = after.sent
                    /\ droppedFrames' = after.dropped
    /\ UNCHANGED resolvedSessions

\* The promise of ai.live.connect of start call k resolves with the session:
\* the callbacks registered on it run in the order of their registration.
SessionResolved ==
    \E k \in 1..UsedStarts :
        /\ conns[k] = "open" /\ k \notin resolvedSessions
        /\ resolvedSessions' = resolvedSessions \cup {k}
        /\ LET mine == SelectSeq(pendingSends, LAMBDA r : r.conn = k)
           IN  /\ sentFrames' = sentFrames
                     \o [i \in 1..Len(mine) |->
                            [frame |-> mine[i].frame, conn |-> k, waited |-> TRUE]]
               /\ pendingSends' = SelectSeq(pendingSends, LAMBDA r : r.conn # k)
        /\ UNCHANGED <<capturedFrames, droppedFrames>>

InitMicIdle ==
    /\ capturedFrames = MaxFrames
    /\ resolvedSessions = {}
    /\ pendingSends = <<>>
    /\ sentFrames = <<>>
    /\ droppedFrames = {}

InitMic ==
    /\ capturedFrames = 0
    /\ resolvedSessions = {}
    /\ pendingSends = <<>>
    /\ sentFrames = <<>>
    /\ droppedFrames = {}

\* A manager whose sessions get no inbound message.
InitMicSession == InitManager /\ startBudget = MaxMicSessions /\ messageBudget = 0

InitMoreIdle == InitDeliveryIdle /\ InitSegmenterIdle /\ InitMicIdle

PanelStartLiveSession ==
    /\ StartLiveSession
    /\ SetQueue(clearLiveAudio(Queue))
    /\ stoppedSources' = stoppedSources \cup audioSourceNodes
    /\ capturedIsLiveActive' = isLiveActive
    /\ UNCHANGED <<currentTime, arrived>>

\* An inbound message and what its callbacks do to the audio refs: the
\* turn-complete block calls handleCompleteTurn, then a decoded chunk is
\* given to handleLiveAudioChunk.
PanelMessage ==
    \E k \in 1..UsedStarts :
        /\ ConnMessage(k)
        /\ LET msg == step'.msg[1]
               q == IF msg.turnComplete THEN clearLiveAudio(Queue) ELSE Queue
           IN  /\ stoppedSources' = IF msg.turnComplete
                                    THEN stoppedSources \cup audioSourceNodes
                                    ELSE stoppedSources
               /\ IF msg.audio = "pcm"
                  THEN /\ arrived' = arrived + 1
                       /\ \E d \in 1..MaxDuration :
                             SetQueue(handleLiveAudioChunk(q, Buffer(d)))
                  ELSE /\ arrived' = arrived
                       /\ SetQueue(q)
        /\ UNCHANGED <<currentTime, capturedIsLiveActive>>

\* The Stop button with its reset of the audio refs.
PanelStopLiveSession ==
    /\ StopLiveSession
    /\ SetQueue(clearLiveAudio(Queue))
    /\ stoppedSources' = stoppedSources \cup audioSourceNodes
    /\ UNCHANGED <<currentTime, capturedIsLiveActive, arrived>>

\* The cleanup of the effect with its reset of the audio refs.
PanelUnmount ==
    /\ Unmount
    /\ SetQueue(clearLiveAudio(Queue))
    /\ stoppedSources' = stoppedSources \cup audioSourceNodes
    /\ UNCHANGED <<currentTime, capturedIsLiveActive, arrived>>

\* The steps of the session that leave the audio refs alone: handleLiveError
\* and handleLiveClose do not touch them.
PanelSessionEvent ==
    /\ \E k \in 1..UsedStarts :
          \/ MicGranted(k) \/ MicDenied(k) \/ ConnOpen(k) \/ ConnectRejected(k)
          \/ ConnError(k) \/ ConnClose(k)
    /\ UNCHANGED queueVars

\* The events of the audio context: the clock advances, a source ends.
PanelAudioEvent ==
    /\ UNCHANGED liveVars
    /\ (Tick \/ SourceEnded \/ StoppedSourceEnded)

\* C31: a decoded chunk that reaches the panel while the session is active
\* is started in that step at the clock time when no source is in the set,
\* and is appended to the queue, nothing else changing, when one is.
C31_ChunkScheduledOrQueued ==
    [][(/\ step'.handler = "onmessage"
        /\ arrived' = arrived + 1
        /\ mounted /\ isLiveActive) =>
          LET q == IF step'.msg[1].turnComplete THEN clearLiveAudio(Queue) ELSE Queue
          IN  IF q.audioSourceNodes = {}
              THEN /\ \E s \in audioSourceNodes' : s.id = arrived' /\ s.start = currentTime
                   /\ audioQueue' = q.audioQueue
              ELSE /\ Len(audioQueue') = Len(q.audioQueue) + 1
                   /\ audioQueue'[Len(audioQueue')].id = arrived'
                   /\ audioSourceNodes' = q.audioSourceNodes]_vars

\* ========================================================== specifications

InitSpecBatch == InitBatch /\ InitLive /\ InitQueueIdle /\ InitPlayerIdle /\ InitUtilsIdle /\ InitMoreIdle

NextBatch ==
    \/ GenerateSpeechNoKey /\ UNCHANGED <<liveVars, queueVars, playerVars, utilVars, moreVars>>
    \/ GenerateSpeech /\ UNCHANGED <<liveVars, queueVars, playerVars, utilVars, moreVars>>
    \/ \E i \in 1..MaxSegments : SegmentAudio(i) /\ UNCHANGED <<liveVars, queueVars, playerVars, utilVars, moreVars>>
    \/ \E i \in 1..MaxSegments : SegmentDecoded(i) /\ UNCHANGED <<liveVars, queueVars, playerVars, utilVars, moreVars>>
    \/ \E i \in 1..MaxSegments : SegmentEmpty(i) /\ UNCHANGED <<liveVars, queueVars, playerVars, utilVars, moreVars>>
    \/ \E i \in 1..MaxSegments : SegmentFails(i) /\ UNCHANGED <<liveVars, queueVars, playerVars, utilVars, moreVars>>
    \/ GenerateSpeechSequential /\ UNCHANGED <<liveVars, queueVars, playerVars, utilVars, moreVars>>
    \/ \E i \in 1..MaxSegments : SequentialAudio(i) /\ UNCHANGED <<liveVars, queueVars, playerVars, utilVars, moreVars>>
    \/ \E i \in 1..MaxSegments : SequentialDecoded(i) /\ UNCHANGED <<liveVars, queueVars, playerVars, utilVars, moreVars>>
    \/ \E i \in 1..MaxSegments : SequentialEmpty(i) /\ UNCHANGED <<liveVars, queueVars, playerVars, utilVars, moreVars>>
    \/ \E i \in 1..MaxSegments : SequentialFails(i) /\ UNCHANGED <<liveVars, queueVars, playerVars, utilVars, moreVars>>

SpecBatch == InitSpecBatch /\ [][NextBatch]_vars

NextLive ==
    \/ StartLiveSession /\ UNCHANGED <<batchVars, queueVars, playerVars, utilVars, moreVars>>
    \/ \E k \in 1..UsedStarts : MicGranted(k) /\ UNCHANGED <<batchVars, queueVars, playerVars, utilVars, moreVars>>
    \/ \E k \in 1..UsedStarts : MicDenied(k) /\ UNCHANGED <<batchVars, queueVars, playerVars, utilVars, moreVars>>
    \/ \E k \in 1..UsedStarts : ConnectRejected(k) /\ UNCHANGED <<batchVars, queueVars, playerVars, utilVars, moreVars>>
    \/ \E k \in 1..UsedStarts : ConnOpen(k) /\ UNCHANGED <<batchVars, queueVars, playerVars, utilVars, moreVars>>
    \/ \E k \in 1..UsedStarts : ConnMessage(k) /\ UNCHANGED <<batchVars, queueVars, playerVars, utilVars, moreVars>>
    \/ \E k \in 1..UsedStarts : ConnError(k) /\ UNCHANGED <<batchVars, queueVars, playerVars, utilVars, moreVars>>
    \/ \E k \in 1..UsedStarts : ConnClose(k) /\ UNCHANGED <<batchVars, queueVars, playerVars, utilVars, moreVars>>
    \/ StopLiveSession /\ UNCHANGED <<batchVars, queueVars, playerVars, utilVars, moreVars>>
    \/ Unmount /\ UNCHANGED <<batchVars, queueVars, playerVars, utilVars, moreVars>>

InitSpecLive == InitBatch /\ InitLive /\ InitQueueIdle /\ InitPlayerIdle /\ InitUtilsIdle /\ InitMoreIdle

SpecLive == InitSpecLive /\ [][NextLive]_vars

InitSpecSession == InitBatch /\ InitSession /\ InitQueueIdle /\ InitPlayerIdle /\ InitUtilsIdle /\ InitMoreIdle

SpecSession == InitSpecSession /\ [][NextLive]_vars

NextQueue ==
    \/ LiveError /\ UNCHANGED <<batchVars, playerVars, utilVars, moreVars>>
    \/ LiveAudioChunk /\ UNCHANGED <<batchVars, liveVars, playerVars, utilVars, moreVars>>
    \/ SourceEnded /\ UNCHANGED <<batchVars, liveVars, playerVars, utilVars, moreVars>>
    \/ StoppedSourceEnded /\ UNCHANGED <<batchVars, liveVars, playerVars, utilVars, moreVars>>
    \/ handleCompleteTurn /\ UNCHANGED <<batchVars, liveVars, playerVars, utilVars, moreVars>>
    \/ Tick /\ UNCHANGED <<batchVars, liveVars, playerVars, utilVars, moreVars>>

InitSpecQueue == InitBatch /\ InitLive /\ InitQueue /\ InitPlayerIdle /\ InitUtilsIdle /\ InitMoreIdle

SpecQueue == InitSpecQueue /\ [][NextQueue]_vars

NextPlayer ==
    \/ Play /\ UNCHANGED <<batchVars, liveVars, queueVars, utilVars, moreVars>>
    \/ Pause /\ UNCHANGED <<batchVars, liveVars, queueVars, utilVars, moreVars>>
    \/ Stop /\ UNCHANGED <<batchVars, liveVars, queueVars, utilVars, moreVars>>
    \/ PlaybackEnded /\ UNCHANGED <<batchVars, liveVars, queueVars, utilVars, moreVars>>
    \/ StoppedPlaybackEnded /\ UNCHANGED <<batchVars, liveVars, queueVars, utilVars, moreVars>>
    \/ AnimationFrame /\ UNCHANGED <<batchVars, liveVars, queueVars, utilVars, moreVars>>
    \/ PropsChanged /\ UNCHANGED <<batchVars, liveVars, queueVars, utilVars, moreVars>>
    \/ Tick /\ UNCHANGED <<batchVars, liveVars, playerVars, utilVars, moreVars>>

InitSpecPlayer == InitBatch /\ InitLive /\ InitQueueIdle /\ InitPlayer /\ InitUtilsIdle /\ InitMoreIdle

SpecPlayer == InitSpecPlayer /\ [][NextPlayer]_vars

NextPcm ==
    \/ CreatePcmBlob /\ UNCHANGED <<batchVars, liveVars, queueVars, playerVars, wavVars, combineVars, moreVars>>
    \/ DecodePcm /\ UNCHANGED <<batchVars, liveVars, queueVars, playerVars, wavVars, combineVars, moreVars>>

InitSpecPcm ==
    InitBatch /\ InitLive /\ InitQueueIdle /\ InitPlayerIdle /\ InitPcm /\ InitWavIdle /\ InitCombineIdle /\ InitMoreIdle

SpecPcm == InitSpecPcm /\ [][NextPcm]_vars

NextWav ==
    \/ WriteWav /\ UNCHANGED <<batchVars, liveVars, queueVars, playerVars, pcmVars, combineVars, moreVars>>

InitSpecWav ==
    InitBatch /\ InitLive /\ InitQueueIdle /\ InitPlayerIdle /\ InitPcmIdle /\ InitWav /\ InitCombineIdle /\ InitMoreIdle

SpecWav == InitSpecWav /\ [][NextWav]_vars

NextCombine ==
    \/ HandleDownloadCombined /\ UNCHANGED <<batchVars, liveVars, queueVars, playerVars, pcmVars, moreVars>>

InitSpecCombine ==
    InitBatch /\ InitLive /\ InitQueueIdle /\ InitPlayerIdle /\ InitPcmIdle /\ InitWavIdle /\ InitCombine /\ InitMoreIdle

SpecCombine == InitSpecCombine /\ [][NextCombine]_vars

NextDelivery ==
    \/ OnMessageTask /\ UNCHANGED <<batchVars, liveVars, queueVars, playerVars, utilVars, segmenterVars, micVars>>
    \/ OnMessageResume /\ UNCHANGED <<batchVars, liveVars, queueVars, playerVars, utilVars, segmenterVars, micVars>>

InitSpecDelivery ==
    InitBatch /\ InitLive /\ InitQueueIdle /\ InitPlayerIdle /\ InitUtilsIdle /\ InitDelivery
    /\ InitSegmenterIdle /\ InitMicIdle

SpecDelivery == InitSpecDelivery /\ [][NextDelivery]_vars

NextSegmenter ==
    \/ SplitScript /\ UNCHANGED <<batchVars, liveVars, queueVars, playerVars, utilVars, deliveryVars, micVars>>

InitSpecSegmenter ==
    InitBatch /\ InitLive /\ InitQueueIdle /\ InitPlayerIdle /\ InitUtilsIdle /\ InitDeliveryIdle
    /\ InitSegmenter /\ InitMicIdle

SpecSegmenter == InitSpecSegmenter /\ [][NextSegmenter]_vars

NextMic ==
    \/ ~ResolutionDue /\ NextLive
    \/ AudioProcess /\ UNCHANGED <<batchVars, liveVars, queueVars, playerVars, utilVars, deliveryVars, segmenterVars>>
    \/ SessionResolved /\ UNCHANGED <<batchVars, liveVars, queueVars, playerVars, utilVars, deliveryVars, segmenterVars>>

InitSpecMic ==
    InitBatch /\ InitMicSession /\ InitQueueIdle /\ InitPlayerIdle /\ InitUtilsIdle /\ InitDeliveryIdle
    /\ InitSegmenterIdle /\ InitMic

SpecMic == InitSpecMic /\ [][NextMic]_vars

NextPanel ==
    \/ PanelStartLiveSession /\ UNCHANGED <<batchVars, playerVars, utilVars, moreVars>>
    \/ PanelMessage /\ UNCHANGED <<batchVars, playerVars, utilVars, moreVars>>
    \/ PanelStopLiveSession /\ UNCHANGED <<batchVars, playerVars, utilVars, moreVars>>
    \/ PanelUnmount /\ UNCHANGED <<batchVars, playerVars, utilVars, moreVars>>
    \/ PanelSessionEvent /\ UNCHANGED <<batchVars, playerVars, utilVars, moreVars>>
    \/ PanelAudioEvent /\ UNCHANGED <<batchVars, playerVars, utilVars, moreVars>>

InitSpecPanel == InitBatch /\ InitSession /\ InitQueueIdle /\ InitPlayerIdle /\ InitUtilsIdle /\ InitMoreIdle

SpecPanel == InitSpecPanel /\ [][NextPanel]_vars

====
